---- MODULE Spec2Model ----
(***************************************************************************)
(* Verification model of the validation-gated daily EOD pipeline:          *)
(*   scripts/pipelines/daily_eod_pipeline.py  (ingestion orchestrator,     *)
(*       quality validator, controller main)                               *)
(*   the price store behind run_multi_fetch_store (upsert by symbol and    *)
(*       timestamp)                                                        *)
(*   backend/clients/yfinance_client.py       (rate-limited client)        *)
(* Each subsystem has its own specification over the shared variables; a   *)
(* specification holds the variables of the other subsystems constant.     *)
(***************************************************************************)
EXTENDS Integers, Sequences, FiniteSets, TLC

VARIABLES
    \* ---- DataQualityValidator --------------------------------------------
    store,               \* answers the storage gives to the validator's queries
    qfail,               \* set of checks whose storage query raised
    validation_results,  \* self.validation_results
    val_pc,              \* position inside validate_all
    \* ---- DataIngestionOrchestrator ---------------------------------------
    assets,              \* the asset list, as the sequence of its symbols
    stats,               \* self.stats
    ing_pc,              \* position inside ingest_daily_data
    i,                   \* batch offset of the outer loop
    j,                   \* group offset of the inner loop
    k,                   \* symbols of the current group already read
    calls,               \* the groups handed to run_multi_fetch_store, in order
    raised,              \* indices (in calls) of the group calls that raised
    tally,               \* what the returned per-symbol outcomes amount to
    \* ---- main ------------------------------------------------------------
    main_pc,             \* position inside main
    success,             \* value returned by main (<<>> while running)
    analytics,           \* TRUE once "Proceeding to analytics" is reached
    fetched,             \* outcome of fetch_active_assets: "pending", "raised", "listed"
    \* ---- YFinanceClient ----------------------------------------------------
    now,                 \* the event loop's clock
    respect_server,      \* config.respect_server
    last_request_time,   \* self.last_request_time
    cpc,                 \* per caller: position inside its fetch call
    current_time,        \* per caller: the clock as read before its wait
    sleep_duration,      \* per caller: the wait handed to asyncio.sleep
    chunks,              \* per caller: download requests its call still owes
    requests,            \* issued download requests: <<time, caller>>, in order
    \* ---- repeated runs and the price store ------------------------------
    run,                 \* number of the current ingestion run
    provider,            \* per symbol: the timestamps the provider has rows for
    price_rows,          \* per <<symbol, timestamp>>: stored copies of that row
    rows_before,         \* price_rows as it was when the current run began
    summary,             \* per-symbol results of the last returned group call
    \* ---- the batch process ------------------------------------------------
    exit_code,           \* the process's exit code (<<>> while it runs)
    \* ---- PipelineService --------------------------------------------------
    status,              \* self.status
    metrics,             \* self.metrics
    svc_pc,              \* position inside run_pipeline ("out": not inside)
    svc_run,             \* number of run_pipeline invocations so far
    result,              \* what the last run_pipeline returned (<<>>: nothing yet)
    entry_status,        \* self.status as the current invocation found it
    entry_metrics,       \* self.metrics as the current invocation found it
    tiers_run,           \* the tiers the current invocation has started, in order
    \* ---- a second YFinanceClient ------------------------------------------
    other,               \* the fields of another client instance and its caller
    \* ---- YFinanceClient.fetch_batch_multi ---------------------------------
    symbols,             \* the symbols argument
    group_size,          \* the group_size argument
    pos,                 \* offset of the chunk generator
    results,             \* the results dict: symbol -> "rows" or "empty"
    issued,              \* the groups handed to yf.download so far, in order
    answers,             \* what each finished download came back as
    batch_pc,            \* position of the call: idle, running, returned
    \* ---- YFinanceClient._convert_symbol_to_yfinance -----------------------
    symbol,              \* the symbol argument, as its sequence of characters
    asset_type,          \* the asset_type argument ("none": None)
    converted            \* the returned string (<<>>: not called yet)

valVars  == <<store, qfail, validation_results, val_pc>>
ingVars  == <<assets, stats, ing_pc, i, j, k, calls, raised, tally>>
mainVars == <<main_pc, success, analytics, fetched>>
rateVars == <<now, respect_server, last_request_time, cpc, current_time,
             sleep_duration, chunks, requests>>
storeVars == <<run, provider, price_rows, rows_before, summary>>
procVars == <<exit_code>>
svcVars  == <<status, metrics, svc_pc, svc_run, result, entry_status,
              entry_metrics, tiers_run>>
peerVars == <<other>>
batchVars == <<symbols, group_size, pos, results, issued, answers, batch_pc>>
convVars == <<symbol, asset_type, converted>>
vars     == <<valVars, ingVars, mainVars, rateVars, storeVars, procVars,
              svcVars, peerVars, batchVars, convVars>>

\* the figures the demo tiers of PipelineService record
TIER_1_RECORDS == 5000
TIER_3_PAIRS == 100
TIER_4_ENTRIES == 500

Min(a, b) == IF a <= b THEN a ELSE b

(***************************************************************************)
(* Configuration (daily_eod_pipeline.py, lines 33-39 and 97).              *)
(***************************************************************************)
MIN_DATA_POINTS_REQUIRED == 5
MIN_ASSETS_REQUIRED == 50
BATCH_SIZE == 10
GROUP_SIZE == 5
\* MAX_MISSING_RATIO = 0.1, kept as the fraction 1 / MAX_MISSING_DEN
MAX_MISSING_DEN == 10
\* the literal 48 (hours) of _check_data_freshness, and seconds per hour
MAX_STALENESS_HOURS == 48
SECONDS_PER_HOUR == 3600
\* the trailing window of the completeness and quality queries: timedelta(days=7)
WINDOW_SECONDS == 604800

(***************************************************************************)
(* Bounds of the model.                                                    *)
(***************************************************************************)
AgeSlack == 1      \* ages are drawn this many seconds around the 48 h boundary
AssetSlack == 1    \* active-asset counts are drawn this far around the minimum
MaxNull == 3       \* largest number of null-close rows
MaxAssets == 12    \* longest asset list handed to ingest_daily_data
MaxRecords == 2    \* largest records_stored of one symbol
MainMaxAssets == 2 \* longest active-asset list fetched by main
Delay == 3         \* config.delay_between_requests, in clock ticks
MaxRuns == 2       \* ingestion runs followed one after the other
RerunMaxAssets == 2  \* assets of a list handed to a repeated invocation
IdemMaxAssets == 2 \* assets ingested over a stored range
MaxStamps == 2     \* timestamps of the ingested date range
MaxPipelineRuns == 4  \* run_pipeline invocations on one service
MalformedMaxAssets == 6  \* assets of a list whose summaries may be malformed
MaxSymbols == 5    \* longest symbols list handed to fetch_batch_multi
MaxGroupSize == 3  \* largest group_size handed to fetch_batch_multi
MaxTime == 8       \* the clock is followed up to this tick
MaxRequests == 3   \* download requests followed per run of the client

(***************************************************************************)
(*                        DataQualityValidator                             *)
(***************************************************************************)
CheckNames == {"completeness", "freshness", "quality", "asset_coverage"}

StalenessSeconds == MAX_STALENESS_HOURS * SECONDS_PER_HOUR

\* Ages (seconds) of the most recent price row: fresh, around the boundary,
\* and older than the trailing window.
Ages == {0} \cup ((StalenessSeconds - AgeSlack)..(StalenessSeconds + AgeSlack))
            \cup {WINDOW_SECONDS + 1}
ActiveCounts == {0, 1} \cup ((MIN_ASSETS_REQUIRED - AssetSlack)..(MIN_ASSETS_REQUIRED + AssetSlack))
RecentCounts == {0, 3, 4, 5, 10, 20, 195, 196, 197, 199, 200, 201}
NullCounts == 0..MaxNull

\* A storage content, as the validator's queries see it:
\*   latest  - response.data of the "most recent timestamp" query: <<>> when
\*             price_history is empty, else <<age in seconds>>
\*   recent  - count of price rows in the trailing 7-day window
\*   nulls   - count of price rows whose close is null (any age)
\*   active  - count of active assets
\* A row younger than the window is counted by it, and no row means no count.
StoreOk(st) ==
    /\ st.latest = <<>> => st.recent = 0 /\ st.nulls = 0
    /\ st.latest # <<>> => (st.recent >= 1 <=> st.latest[1] <= WINDOW_SECONDS)

Stores ==
    { st \in [latest : {<<>>} \cup {<<a>> : a \in Ages}, recent : RecentCounts,
              nulls : NullCounts, active : ActiveCounts] : StoreOk(st) }

\* DataQualityValidator.__init__
NoChecks == [c \in {} |-> [passed |-> FALSE, details |-> <<>>]]

FreshResults ==
    [passed |-> FALSE, checks |-> NoChecks, errors |-> <<>>, warnings |-> <<>>]

\* self.validation_results["checks"][name] = {...}
SetCheck(vr, name, passed, details) ==
    [vr EXCEPT !.checks = [c \in (DOMAIN vr.checks) \cup {name} |->
        IF c = name THEN [passed |-> passed, details |-> details]
        ELSE vr.checks[c]]]

AddError(vr, e) == [vr EXCEPT !.errors = Append(@, e)]
AddWarning(vr, w) == [vr EXCEPT !.warnings = Append(@, w)]

\* Variant: the tolerance ratio is left out of the threshold.
CompletenessThresholdFull(active_assets) ==
    Min(active_assets, MIN_ASSETS_REQUIRED) * MIN_DATA_POINTS_REQUIRED

\* int(expected_records * tolerance_ratio) with tolerance_ratio = 0.8; the
\* float product of a multiple of 5 up to 250 with 0.8 truncates to 4/5 of it
CompletenessThreshold(active_assets) ==
    LET expected_assets == Min(active_assets, MIN_ASSETS_REQUIRED)
        expected_records == expected_assets * MIN_DATA_POINTS_REQUIRED
    IN  (expected_records * 8) \div 10

\* Variant: the except branch records the failure without appending an error.
check_data_completeness_silent(vr, st, exc) ==
    IF exc THEN
        SetCheck(vr, "completeness", FALSE, <<"exception">>)
    ELSE IF st.recent >= CompletenessThreshold(st.active) THEN
        SetCheck(vr, "completeness", TRUE, <<"recent records found", st.recent>>)
    ELSE
        AddError(SetCheck(vr, "completeness", FALSE, <<"Only records found", st.recent>>),
                 <<"Insufficient data points", st.recent>>)

\* Variant: too few rows are reported as a warning.
check_data_completeness_warns(vr, st, exc) ==
    IF exc THEN
        AddError(SetCheck(vr, "completeness", FALSE, <<"exception">>),
                 <<"Completeness check error">>)
    ELSE IF st.recent >= CompletenessThreshold(st.active) THEN
        SetCheck(vr, "completeness", TRUE, <<"recent records found", st.recent>>)
    ELSE
        AddWarning(SetCheck(vr, "completeness", FALSE, <<"Only records found", st.recent>>),
                   <<"Insufficient data points", st.recent>>)

\* _check_data_completeness; exc: one of its two queries raised
check_data_completeness(vr, st, exc) ==
    IF exc THEN
        AddError(SetCheck(vr, "completeness", FALSE, <<"exception">>),
                 <<"Completeness check error">>)
    ELSE IF st.recent >= CompletenessThreshold(st.active) THEN
        SetCheck(vr, "completeness", TRUE, <<"recent records found", st.recent>>)
    ELSE
        AddError(SetCheck(vr, "completeness", FALSE, <<"Only records found", st.recent>>),
                 <<"Insufficient data points", st.recent>>)

\* Variant: the boundary is open.
FreshEnoughStrict(age) == age < StalenessSeconds

\* age_hours <= 48 with age_hours = seconds / 3600
FreshEnough(age) == age <= StalenessSeconds

\* Variant: an empty price_history is taken for fresh.
check_data_freshness_empty_ok(vr, st, exc) ==
    IF exc THEN
        AddError(SetCheck(vr, "freshness", FALSE, <<"exception">>),
                 <<"Freshness check error">>)
    ELSE IF st.latest # <<>> /\ ~FreshEnough(st.latest[1]) THEN
        AddError(SetCheck(vr, "freshness", FALSE, <<"Data is hours old", st.latest[1]>>),
                 <<"Stale data", st.latest[1]>>)
    ELSE
        SetCheck(vr, "freshness", TRUE, <<"Latest data is hours old", 0>>)

\* _check_data_freshness
check_data_freshness(vr, st, exc) ==
    IF exc THEN
        AddError(SetCheck(vr, "freshness", FALSE, <<"exception">>),
                 <<"Freshness check error">>)
    ELSE IF st.latest # <<>> THEN
        IF FreshEnough(st.latest[1]) THEN
            SetCheck(vr, "freshness", TRUE, <<"Latest data is hours old", st.latest[1]>>)
        ELSE
            AddError(SetCheck(vr, "freshness", FALSE, <<"Data is hours old", st.latest[1]>>),
                     <<"Stale data", st.latest[1]>>)
    ELSE
        AddError(SetCheck(vr, "freshness", FALSE, <<"No data found in price_history">>),
                 <<"No data in price_history table">>)

\* null_ratio <= MAX_MISSING_RATIO, with total_count = count or 1
NullRatioOk(null_count, count) ==
    LET total_count == IF count = 0 THEN 1 ELSE count
    IN  null_count * MAX_MISSING_DEN <= total_count

\* Variant: a high null ratio fails the check with an error.
check_data_quality_blocking(vr, st, exc) ==
    IF exc THEN
        AddWarning(SetCheck(vr, "quality", TRUE, <<"exception">>),
                   <<"Quality check error">>)
    ELSE IF NullRatioOk(st.nulls, st.recent) THEN
        SetCheck(vr, "quality", TRUE, <<"Null ratio", st.nulls, st.recent>>)
    ELSE
        AddError(SetCheck(vr, "quality", FALSE, <<"Null ratio", st.nulls, st.recent>>),
                 <<"High null ratio", st.nulls, st.recent>>)

\* _check_data_quality
check_data_quality(vr, st, exc) ==
    IF exc THEN
        AddWarning(SetCheck(vr, "quality", TRUE, <<"exception">>),
                   <<"Quality check error">>)
    ELSE IF NullRatioOk(st.nulls, st.recent) THEN
        SetCheck(vr, "quality", TRUE, <<"Null ratio", st.nulls, st.recent>>)
    ELSE
        AddWarning(SetCheck(vr, "quality", TRUE, <<"Null ratio", st.nulls, st.recent>>),
                   <<"High null ratio", st.nulls, st.recent>>)

\* Variant: the minimum itself does not suffice.
check_asset_coverage_strict(vr, st, exc) ==
    IF exc THEN
        AddError(SetCheck(vr, "asset_coverage", FALSE, <<"exception">>),
                 <<"Asset coverage error">>)
    ELSE IF st.active > MIN_ASSETS_REQUIRED THEN
        SetCheck(vr, "asset_coverage", TRUE, <<"active assets found", st.active>>)
    ELSE
        AddError(SetCheck(vr, "asset_coverage", FALSE, <<"Only active assets", st.active>>),
                 <<"Insufficient active assets", st.active>>)

\* _check_asset_coverage
check_asset_coverage(vr, st, exc) ==
    IF exc THEN
        AddError(SetCheck(vr, "asset_coverage", FALSE, <<"exception">>),
                 <<"Asset coverage error">>)
    ELSE IF st.active >= MIN_ASSETS_REQUIRED THEN
        SetCheck(vr, "asset_coverage", TRUE, <<"active assets found", st.active>>)
    ELSE
        AddError(SetCheck(vr, "asset_coverage", FALSE, <<"Only active assets", st.active>>),
                 <<"Insufficient active assets", st.active>>)

\* checks.get(check, {}).get("passed", False)
CheckPassed(vr, check) ==
    IF check \in DOMAIN vr.checks THEN vr.checks[check].passed ELSE FALSE

critical_checks == {"completeness", "freshness", "asset_coverage"}

\* Variant: a warning blocks the verdict as well.
all_passed_unwarned(vr) ==
    /\ \A check \in critical_checks : CheckPassed(vr, check)
    /\ vr.warnings = <<>>

\* all(... for check in critical_checks)
all_passed(vr) == \A check \in critical_checks : CheckPassed(vr, check)

\* validate_all (lines 160-202) as a function of the storage content st and of
\* the set qf of checks whose query raises
validate_all(vr, st, qf) ==
    LET c1 == check_data_completeness(vr, st, "completeness" \in qf)
        c2 == check_data_freshness(c1, st, "freshness" \in qf)
        c3 == check_data_quality(c2, st, "quality" \in qf)
        c4 == check_asset_coverage(c3, st, "asset_coverage" \in qf)
    IN  [c4 EXCEPT !.passed = all_passed(c4)]

\* The validator as constructed and not yet run.
ValIdle ==
    /\ qfail = {}
    /\ validation_results = FreshResults
    /\ val_pc = "idle"

\* validate_all is entered (lines 160-165)
ValidateBegin ==
    /\ val_pc = "idle"
    /\ val_pc' = "completeness"
    /\ UNCHANGED <<store, qfail, validation_results>>
    /\ UNCHANGED <<ingVars, mainVars, rateVars, storeVars, procVars, svcVars, peerVars,
                 batchVars, convVars>>

\* The checks of validate_all (lines 166-169), in order. The storage queries
\* of a check answer from the store, or one of them raises (exc).
CheckCompleteness ==
    /\ val_pc = "completeness"
    /\ \E exc \in BOOLEAN :
          /\ validation_results' = check_data_completeness(validation_results, store, exc)
          /\ qfail' = IF exc THEN qfail \cup {"completeness"} ELSE qfail
    /\ val_pc' = "freshness"
    /\ UNCHANGED store
    /\ UNCHANGED <<ingVars, mainVars, rateVars, storeVars, procVars, svcVars, peerVars,
                 batchVars, convVars>>

\* Variant: a failed freshness check ends the checks.
CheckFreshnessStops ==
    /\ val_pc = "freshness"
    /\ \E exc \in BOOLEAN :
          /\ validation_results' = check_data_freshness(validation_results, store, exc)
          /\ qfail' = IF exc THEN qfail \cup {"freshness"} ELSE qfail
    /\ val_pc' = IF CheckPassed(validation_results', "freshness") THEN "quality"
                  ELSE "aggregate"
    /\ UNCHANGED store
    /\ UNCHANGED <<ingVars, mainVars, rateVars, storeVars, procVars, svcVars, peerVars,
                 batchVars, convVars>>

CheckFreshness ==
    /\ val_pc = "freshness"
    /\ \E exc \in BOOLEAN :
          /\ validation_results' = check_data_freshness(validation_results, store, exc)
          /\ qfail' = IF exc THEN qfail \cup {"freshness"} ELSE qfail
    /\ val_pc' = "quality"
    /\ UNCHANGED store
    /\ UNCHANGED <<ingVars, mainVars, rateVars, storeVars, procVars, svcVars, peerVars,
                 batchVars, convVars>>

CheckQuality ==
    /\ val_pc = "quality"
    /\ \E exc \in BOOLEAN :
          /\ validation_results' = check_data_quality(validation_results, store, exc)
          /\ qfail' = IF exc THEN qfail \cup {"quality"} ELSE qfail
    /\ val_pc' = "asset_coverage"
    /\ UNCHANGED store
    /\ UNCHANGED <<ingVars, mainVars, rateVars, storeVars, procVars, svcVars, peerVars,
                 batchVars, convVars>>

CheckAssetCoverage ==
    /\ val_pc = "asset_coverage"
    /\ \E exc \in BOOLEAN :
          /\ validation_results' = check_asset_coverage(validation_results, store, exc)
          /\ qfail' = IF exc THEN qfail \cup {"asset_coverage"} ELSE qfail
    /\ val_pc' = "aggregate"
    /\ UNCHANGED store
    /\ UNCHANGED <<ingVars, mainVars, rateVars, storeVars, procVars, svcVars, peerVars,
                 batchVars, convVars>>

\* validate_all, lines 171-202: the aggregate verdict and the return
ValidateAggregate ==
    /\ val_pc = "aggregate"
    /\ validation_results' = [validation_results EXCEPT !.passed = all_passed(validation_results)]
    /\ val_pc' = "returned"
    /\ UNCHANGED <<store, qfail>>
    /\ UNCHANGED <<ingVars, mainVars, rateVars, storeVars, procVars, svcVars, peerVars,
                 batchVars, convVars>>

(***************************************************************************)
(*                      DataIngestionOrchestrator                          *)
(***************************************************************************)
\* DataIngestionOrchestrator.__init__: self.stats
FreshStats ==
    [total_assets |-> 0, successful |-> 0, failed |-> 0, skipped |-> 0,
     total_records |-> 0]

\* What the returned outcomes add up to, by status: kept beside self.stats
NoTally == [success |-> 0, skipped |-> 0, failed |-> 0, none |-> 0, records |-> 0]

\* summary["results"].get(sym, {}): a symbol's outcome, "none" when the map
\* has no entry (or no status) for it
Outcomes ==
    [status : {"success", "skipped", "failed"}, records_stored : 0..MaxRecords]
        \cup {[status |-> "none", records_stored |-> 0]}

AssetList(n) == [x \in 1..n |-> x]

\* len(batch) for batch = assets[i : i + BATCH_SIZE]
BatchLen(b) == Min(BATCH_SIZE, Len(assets) - b)

\* group = batch[j : j + GROUP_SIZE]
GroupOf(b, g) == SubSeq(assets, b + g + 1, b + Min(g + GROUP_SIZE, BatchLen(b)))

\* Variant: the inner range() runs one step past the end of the batch.
NextPosInclusive(b, g) ==
    IF g + GROUP_SIZE <= BatchLen(b) THEN <<b, g + GROUP_SIZE>>
    ELSE <<b + BATCH_SIZE, 0>>

\* the two range() loops, lines 90 and 98: the offsets of the group after (b, g)
NextPos(b, g) ==
    IF g + GROUP_SIZE < BatchLen(b) THEN <<b, g + GROUP_SIZE>>
    ELSE <<b + BATCH_SIZE, 0>>

\* Variant: a skipped symbol is counted as a success.
count_symbol_skipped_success(st, res) ==
    IF res.status = "success" \/ res.status = "skipped" THEN
        [st EXCEPT !.successful = @ + 1, !.total_records = @ + res.records_stored]
    ELSE
        [st EXCEPT !.failed = @ + 1]

\* Variant: a skipped symbol's records_stored is added to total_records.
count_symbol_skipped_records(st, res) ==
    IF res.status = "success" THEN
        [st EXCEPT !.successful = @ + 1, !.total_records = @ + res.records_stored]
    ELSE IF res.status = "skipped" THEN
        [st EXCEPT !.skipped = @ + 1, !.total_records = @ + res.records_stored]
    ELSE
        [st EXCEPT !.failed = @ + 1]

\* lines 113-125: one symbol of a returned summary is counted
count_symbol(st, res) ==
    IF res.status = "success" THEN
        [st EXCEPT !.successful = @ + 1, !.total_records = @ + res.records_stored]
    ELSE IF res.status = "skipped" THEN
        [st EXCEPT !.skipped = @ + 1]
    ELSE
        [st EXCEPT !.failed = @ + 1]

\* Variant: a raised group counts one failure, not one per symbol.
count_raised_one(st, group) == [st EXCEPT !.failed = @ + 1]

\* lines 126-128: the group call raised
count_raised(st, group) == [st EXCEPT !.failed = @ + Len(group)]

\* The orchestrator as constructed, ingest_daily_data not yet invoked.
IngIdle ==
    /\ stats = FreshStats
    /\ ing_pc = "idle"
    /\ i = 0 /\ j = 0 /\ k = 0
    /\ calls = <<>>
    /\ raised = {}
    /\ tally = NoTally

\* ingest_daily_data is entered with the list `lst` (lines 75-88)
IngestEnter(lst) ==
    /\ assets' = lst
    /\ stats' = [stats EXCEPT !.total_assets = Len(lst)]
    /\ ing_pc' = "loop"
    /\ i' = 0 /\ j' = 0 /\ k' = 0
    /\ UNCHANGED <<calls, raised, tally>>

IngestBegin ==
    /\ ing_pc = "idle"
    /\ IngestEnter(assets)
    /\ UNCHANGED <<valVars, mainVars, rateVars, storeVars, procVars, svcVars, peerVars,
                 batchVars, convVars>>

\* Variant: the calls of a group and of its successor are issued together.
GroupCallPair ==
    /\ ing_pc = "loop"
    /\ i < Len(assets)
    /\ calls' = Append(Append(calls, GroupOf(i, j)),
                       GroupOf(NextPos(i, j)[1], NextPos(i, j)[2]))
    /\ ing_pc' = "await"
    /\ UNCHANGED <<assets, stats, i, j, k, raised, tally>>
    /\ UNCHANGED <<valVars, mainVars, rateVars, storeVars, procVars, svcVars, peerVars,
                 batchVars, convVars>>

\* lines 98-111: the next group is cut and its fetch-and-store call is awaited
GroupCall ==
    /\ ing_pc = "loop"
    /\ i < Len(assets)
    /\ calls' = Append(calls, GroupOf(i, j))
    /\ ing_pc' = "await"
    /\ UNCHANGED <<assets, stats, i, j, k, raised, tally>>
    /\ UNCHANGED <<valVars, mainVars, rateVars, storeVars, procVars, svcVars, peerVars,
                 batchVars, convVars>>

\* Variant: the try block encloses the loops, so a raise ends the run.
GroupRaiseAborts ==
    /\ ing_pc = "await"
    /\ stats' = count_raised(stats, GroupOf(i, j))
    /\ raised' = raised \cup {Len(calls)}
    /\ i' = Len(assets)
    /\ j' = 0
    /\ ing_pc' = "loop"
    /\ UNCHANGED <<assets, k, calls, tally>>
    /\ UNCHANGED <<valVars, mainVars, rateVars, storeVars, procVars, svcVars, peerVars,
                 batchVars, convVars>>

\* lines 126-128: the awaited call raises; the loops go on
GroupRaise ==
    /\ ing_pc = "await"
    /\ stats' = count_raised(stats, GroupOf(i, j))
    /\ raised' = raised \cup {Len(calls)}
    /\ i' = NextPos(i, j)[1]
    /\ j' = NextPos(i, j)[2]
    /\ ing_pc' = "loop"
    /\ UNCHANGED <<assets, k, calls, tally>>
    /\ UNCHANGED <<valVars, mainVars, rateVars, storeVars, procVars, svcVars, peerVars,
                 batchVars, convVars>>

\* line 104: the awaited call returns its summary
GroupReturn ==
    /\ ing_pc = "await"
    /\ ing_pc' = "read"
    /\ k' = 0
    /\ UNCHANGED <<assets, stats, i, j, calls, raised, tally>>
    /\ UNCHANGED <<valVars, mainVars, rateVars, storeVars, procVars, svcVars, peerVars,
                 batchVars, convVars>>

\* lines 112-125: the next symbol of the group is read from the summary
ReadSymbol ==
    /\ ing_pc = "read"
    /\ \E res \in Outcomes :
          /\ stats' = count_symbol(stats, res)
          /\ tally' = [tally EXCEPT ![res.status] = @ + 1,
                                    !.records = @ + (IF res.status = "success"
                                                     THEN res.records_stored ELSE 0)]
    /\ IF k + 1 < Len(GroupOf(i, j))
       THEN /\ k' = k + 1
            /\ UNCHANGED <<i, j, ing_pc>>
       ELSE /\ k' = 0
            /\ i' = NextPos(i, j)[1]
            /\ j' = NextPos(i, j)[2]
            /\ ing_pc' = "loop"
    /\ UNCHANGED <<assets, calls, raised>>
    /\ UNCHANGED <<valVars, mainVars, rateVars, storeVars, procVars, svcVars, peerVars,
                 batchVars, convVars>>

\* lines 112-128: reading the next symbol's outcome raises inside the try
\* block, after k symbols of the group were counted. Either the entry itself
\* is malformed (res.get raises, line 114) or its status is 'success' and
\* records_stored is not a number (line 118 has run, line 119 raises). The
\* except branch then adds the whole group to failed.
ReadRaises ==
    /\ ing_pc = "read"
    /\ \E counted \in BOOLEAN :
          stats' = count_raised(IF counted
                                THEN [stats EXCEPT !.successful = @ + 1]
                                ELSE stats,
                                GroupOf(i, j))
    /\ raised' = raised \cup {Len(calls)}
    /\ k' = 0
    /\ i' = NextPos(i, j)[1]
    /\ j' = NextPos(i, j)[2]
    /\ ing_pc' = "loop"
    /\ UNCHANGED <<assets, calls, tally>>
    /\ UNCHANGED <<valVars, mainVars, rateVars, storeVars, procVars, svcVars, peerVars,
                 batchVars, convVars>>

\* Variant: the outer loop is left only once its offset has passed the list.
IngestReturnStrict ==
    /\ ing_pc = "loop"
    /\ i > Len(assets)
    /\ ing_pc' = "returned"
    /\ UNCHANGED <<assets, stats, i, j, k, calls, raised, tally>>
    /\ UNCHANGED <<valVars, mainVars, rateVars, storeVars, procVars, svcVars, peerVars,
                 batchVars, convVars>>

\* lines 130-138: the loops are exhausted and self.stats is returned
IngestReturn ==
    /\ ing_pc = "loop"
    /\ i >= Len(assets)
    /\ ing_pc' = "returned"
    /\ UNCHANGED <<assets, stats, i, j, k, calls, raised, tally>>
    /\ UNCHANGED <<valVars, mainVars, rateVars, storeVars, procVars, svcVars, peerVars,
                 batchVars, convVars>>

(***************************************************************************)
(*                                main                                     *)
(***************************************************************************)
\* Storage contents main's validator may meet after ingestion.
MainStores ==
    { st \in Stores :
        /\ st.latest \in {<<>>, <<StalenessSeconds>>, <<StalenessSeconds + 1>>}
        /\ st.recent \in {0, 199, 200}
        /\ st.nulls \in {0, MaxNull}
        /\ st.active \in {MIN_ASSETS_REQUIRED - 1, MIN_ASSETS_REQUIRED} }

MainIdle ==
    /\ main_pc = "start"
    /\ success = <<>>
    /\ analytics = FALSE
    /\ fetched = "pending"

\* Variant: the exception of the fetch is swallowed and an empty list ingested.
MainFetchRaisesContinues ==
    /\ main_pc = "start"
    /\ fetched' = "raised"
    /\ IngestEnter(<<>>)
    /\ main_pc' = "ingest"
    /\ UNCHANGED <<success, analytics>>
    /\ UNCHANGED <<valVars, rateVars, storeVars, procVars, svcVars, peerVars,
                 batchVars, convVars>>

\* lines 385-387 and 416-419: constructing the orchestrator or fetching the
\* active assets raises; main returns False
MainFetchRaises ==
    /\ main_pc = "start"
    /\ fetched' = "raised"
    /\ success' = <<FALSE>>
    /\ main_pc' = "returned"
    /\ UNCHANGED analytics
    /\ UNCHANGED <<valVars, ingVars, rateVars, storeVars, procVars, svcVars, peerVars,
                 batchVars, convVars>>

\* Variant: the emptiness test is missing and the empty list is ingested.
MainNoAssetsIngests ==
    /\ main_pc = "start"
    /\ fetched' = "listed"
    /\ IngestEnter(<<>>)
    /\ main_pc' = "ingest"
    /\ UNCHANGED <<success, analytics>>
    /\ UNCHANGED <<valVars, rateVars, storeVars, procVars, svcVars, peerVars,
                 batchVars, convVars>>

\* lines 385-391: the active-asset list is empty; main returns False
MainNoAssets ==
    /\ main_pc = "start"
    /\ fetched' = "listed"
    /\ assets' = <<>>
    /\ success' = <<FALSE>>
    /\ main_pc' = "returned"
    /\ UNCHANGED analytics
    /\ UNCHANGED <<stats, ing_pc, i, j, k, calls, raised, tally>>
    /\ UNCHANGED <<valVars, rateVars, storeVars, procVars, svcVars, peerVars,
                 batchVars, convVars>>

\* lines 385-393: a non-empty list is fetched and ingest_daily_data is awaited
MainIngest ==
    /\ main_pc = "start"
    /\ fetched' = "listed"
    /\ \E n \in 1..MainMaxAssets : IngestEnter(AssetList(n))
    /\ main_pc' = "ingest"
    /\ UNCHANGED <<success, analytics>>
    /\ UNCHANGED <<valVars, rateVars, storeVars, procVars, svcVars, peerVars,
                 batchVars, convVars>>

\* lines 395 and 416-419: constructing the validator raises; main returns False
MainValidatorRaises ==
    /\ main_pc = "ingest"
    /\ ing_pc = "returned"
    /\ success' = <<FALSE>>
    /\ main_pc' = "returned"
    /\ UNCHANGED <<analytics, fetched>>
    /\ UNCHANGED <<valVars, ingVars, rateVars, storeVars, procVars, svcVars, peerVars,
                 batchVars, convVars>>

\* Variant: ingest_daily_data is not awaited before the validator is run.
MainValidateEarly ==
    /\ main_pc = "ingest"
    /\ store' \in MainStores
    /\ qfail' = {}
    /\ validation_results' = FreshResults
    /\ val_pc' = "completeness"
    /\ main_pc' = "validate"
    /\ UNCHANGED <<success, analytics, fetched>>
    /\ UNCHANGED <<ingVars, rateVars, storeVars, procVars, svcVars, peerVars,
                 batchVars, convVars>>

\* lines 393-396: ingestion has returned; the validator is constructed and
\* validate_all is entered against what the storage now holds
MainValidate ==
    /\ main_pc = "ingest"
    /\ ing_pc = "returned"
    /\ store' \in MainStores
    /\ qfail' = {}
    /\ validation_results' = FreshResults
    /\ val_pc' = "completeness"
    /\ main_pc' = "validate"
    /\ UNCHANGED <<success, analytics, fetched>>
    /\ UNCHANGED <<ingVars, rateVars, storeVars, procVars, svcVars, peerVars,
                 batchVars, convVars>>

\* Variant: a failed report is not looked at and main proceeds.
MainValidationIgnored ==
    /\ main_pc = "validate"
    /\ val_pc = "returned"
    /\ ~validation_results.passed
    /\ analytics' = TRUE
    /\ success' = <<TRUE>>
    /\ main_pc' = "returned"
    /\ UNCHANGED fetched
    /\ UNCHANGED <<valVars, ingVars, rateVars, storeVars, procVars, svcVars, peerVars,
                 batchVars, convVars>>

\* lines 398-401: the report did not pass; main returns False
MainValidationFailed ==
    /\ main_pc = "validate"
    /\ val_pc = "returned"
    /\ ~validation_results.passed
    /\ success' = <<FALSE>>
    /\ main_pc' = "returned"
    /\ UNCHANGED <<analytics, fetched>>
    /\ UNCHANGED <<valVars, ingVars, rateVars, storeVars, procVars, svcVars, peerVars,
                 batchVars, convVars>>

\* lines 403-414: the report passed; "Proceeding to analytics", main returns True
MainProceed ==
    /\ main_pc = "validate"
    /\ val_pc = "returned"
    /\ validation_results.passed
    /\ analytics' = TRUE
    /\ success' = <<TRUE>>
    /\ main_pc' = "returned"
    /\ UNCHANGED fetched
    /\ UNCHANGED <<valVars, ingVars, rateVars, storeVars, procVars, svcVars, peerVars,
                 batchVars, convVars>>

(***************************************************************************)
(*                            YFinanceClient                               *)
(* The callers are coroutines of one event loop: the code between two      *)
(* awaits runs without interleaving, so an action runs from one await to   *)
(* the next. The awaits are asyncio.sleep (the rate-limit wait) and        *)
(* run_in_executor (the download).                                         *)
(***************************************************************************)
Callers == DOMAIN cpc

\* the download request goes out now
Issue(c) == requests' = Append(requests, <<now, c>>)

\* sleep_duration = delay_between_requests - time_since_last (lines 145-148,
\* 223-225)
SleepDuration(time_since_last) == Delay - time_since_last

\* Variant: the time read before the wait is stored.
StampStale(ct) == ct

\* self.last_request_time = asyncio.get_event_loop().time() (lines 154, 230):
\* the clock is read again, after the wait; ct is the reading before it
StampTime(ct) == now

\* Variant: the time is stamped outside the respect_server test.
RateLimitAlwaysStamps(c) ==
    IF ~respect_server THEN
        /\ last_request_time' = StampTime(now)
        /\ Issue(c)
        /\ cpc' = [cpc EXCEPT ![c] = "download"]
        /\ UNCHANGED <<current_time, sleep_duration>>
    ELSE IF now - last_request_time < Delay THEN
        /\ current_time' = [current_time EXCEPT ![c] = now]
        /\ sleep_duration' = [sleep_duration EXCEPT ![c] =
                                 SleepDuration(now - last_request_time)]
        /\ cpc' = [cpc EXCEPT ![c] = "sleep"]
        /\ UNCHANGED <<last_request_time, requests>>
    ELSE
        /\ current_time' = [current_time EXCEPT ![c] = now]
        /\ last_request_time' = StampTime(now)
        /\ Issue(c)
        /\ cpc' = [cpc EXCEPT ![c] = "download"]
        /\ UNCHANGED sleep_duration

\* lines 143-154, 221-230: the rate-limit block up to its first await.
\* Caller c either goes to sleep, or stamps the time and issues its request.
RateLimit(c) ==
    IF ~respect_server THEN
        /\ Issue(c)
        /\ cpc' = [cpc EXCEPT ![c] = "download"]
        /\ UNCHANGED <<last_request_time, current_time, sleep_duration>>
    ELSE IF now - last_request_time < Delay THEN
        /\ current_time' = [current_time EXCEPT ![c] = now]
        /\ sleep_duration' = [sleep_duration EXCEPT ![c] =
                                 SleepDuration(now - last_request_time)]
        /\ cpc' = [cpc EXCEPT ![c] = "sleep"]
        /\ UNCHANGED <<last_request_time, requests>>
    ELSE
        /\ current_time' = [current_time EXCEPT ![c] = now]
        /\ last_request_time' = StampTime(now)
        /\ Issue(c)
        /\ cpc' = [cpc EXCEPT ![c] = "download"]
        /\ UNCHANGED sleep_duration

Owed == LET RECURSIVE Sum(_)
            Sum(S) == IF S = {} THEN 0
                      ELSE LET c == CHOOSE x \in S : TRUE
                           IN  chunks[c] + Sum(S \ {c})
        IN  Sum(Callers)

\* YFinanceClient.__init__ (lines 55-62), every caller outside a fetch
RateIdle(callers) ==
    /\ last_request_time = 0
    /\ cpc = [c \in callers |-> "idle"]
    /\ current_time = [c \in callers |-> 0]
    /\ sleep_duration = [c \in callers |-> 0]
    /\ chunks = [c \in callers |-> 0]
    /\ requests = <<>>

\* fetch_historical_data is called (one request), lines 134-154
FetchHistorical(c) ==
    /\ cpc[c] = "idle"
    /\ Len(requests) + Owed + 1 <= MaxRequests
    /\ chunks' = [chunks EXCEPT ![c] = 1]
    /\ RateLimit(c)
    /\ UNCHANGED <<now, respect_server>>
    /\ UNCHANGED <<valVars, ingVars, mainVars, storeVars, procVars, svcVars, peerVars,
                 batchVars, convVars>>

\* fetch_batch_multi is called with n chunks of symbols, lines 193-230
FetchBatchMulti(c) ==
    /\ cpc[c] = "idle"
    /\ \E n \in 2..MaxRequests :
          /\ Len(requests) + Owed + n <= MaxRequests
          /\ chunks' = [chunks EXCEPT ![c] = n]
    /\ RateLimit(c)
    /\ UNCHANGED <<now, respect_server>>
    /\ UNCHANGED <<valVars, ingVars, mainVars, storeVars, procVars, svcVars, peerVars,
                 batchVars, convVars>>

\* asyncio.sleep returns, not before its time (lines 152-154, 229-230)
Wake(c) ==
    /\ cpc[c] = "sleep"
    /\ now >= current_time[c] + sleep_duration[c]
    /\ last_request_time' = StampTime(current_time[c])
    /\ Issue(c)
    /\ cpc' = [cpc EXCEPT ![c] = "download"]
    /\ UNCHANGED <<now, respect_server, current_time, sleep_duration, chunks>>
    /\ UNCHANGED <<valVars, ingVars, mainVars, storeVars, procVars, svcVars, peerVars,
                 batchVars, convVars>>

\* the download returns or raises; the call returns (lines 181-191, 278)
DownloadLast(c) ==
    /\ cpc[c] = "download"
    /\ chunks[c] = 1
    /\ chunks' = [chunks EXCEPT ![c] = 0]
    /\ cpc' = [cpc EXCEPT ![c] = "idle"]
    /\ UNCHANGED <<now, respect_server, last_request_time, current_time,
                   sleep_duration, requests>>
    /\ UNCHANGED <<valVars, ingVars, mainVars, storeVars, procVars, svcVars, peerVars,
                 batchVars, convVars>>

\* the download of a chunk returns or raises and the loop of fetch_batch_multi
\* reaches the rate-limit block of the next chunk (lines 218-230, 256-276)
DownloadNext(c) ==
    /\ cpc[c] = "download"
    /\ chunks[c] > 1
    /\ chunks' = [chunks EXCEPT ![c] = @ - 1]
    /\ RateLimit(c)
    /\ UNCHANGED <<now, respect_server>>
    /\ UNCHANGED <<valVars, ingVars, mainVars, storeVars, procVars, svcVars, peerVars,
                 batchVars, convVars>>

\* the loop's clock advances
Tick ==
    /\ now < MaxTime
    /\ now' = now + 1
    /\ UNCHANGED <<respect_server, last_request_time, cpc, current_time,
                   sleep_duration, chunks, requests>>
    /\ UNCHANGED <<valVars, ingVars, mainVars, storeVars, procVars, svcVars, peerVars,
                 batchVars, convVars>>

(***************************************************************************)
(*                          The batch process                              *)
(***************************************************************************)
\* what the caller of main receives: the bare boolean main returns
\* (lines 391, 401, 414, 419)
MainResult == [success |-> success[1]]

\* Variant: sys.exit(success), which exits 1 on True and 0 on False.
ProcessExitBool ==
    /\ main_pc = "returned"
    /\ exit_code' = <<IF success[1] THEN 1 ELSE 0>>
    /\ main_pc' = "exited"
    /\ UNCHANGED <<success, analytics, fetched>>
    /\ UNCHANGED <<valVars, ingVars, rateVars, storeVars, svcVars, peerVars,
                 batchVars, convVars>>

\* lines 431-432: sys.exit(0 if success else 1)
ProcessExit ==
    /\ main_pc = "returned"
    /\ exit_code' = <<IF success[1] THEN 0 ELSE 1>>
    /\ main_pc' = "exited"
    /\ UNCHANGED <<success, analytics, fetched>>
    /\ UNCHANGED <<valVars, ingVars, rateVars, storeVars, svcVars, peerVars,
                 batchVars, convVars>>

(***************************************************************************)
(*                 Repeated runs and the price store                       *)
(***************************************************************************)
\* No store is attached and no run has been repeated.
StoreIdle ==
    /\ run = 1
    /\ provider = <<>>
    /\ price_rows = <<>>
    /\ rows_before = <<>>
    /\ summary = <<>>

SymbolsOf(group) == {group[x] : x \in DOMAIN group}

Stamps == 1..MaxStamps

\* ingest_daily_data is invoked again on the orchestrator that has returned:
\* line 81 overwrites total_assets, the other counters are left as they are
IngestAgain ==
    /\ ing_pc = "returned"
    /\ run < MaxRuns
    /\ \E n \in 0..RerunMaxAssets :
          /\ assets' = AssetList(n)
          /\ stats' = [stats EXCEPT !.total_assets = n]
    /\ ing_pc' = "loop"
    /\ i' = 0 /\ j' = 0 /\ k' = 0
    /\ calls' = <<>>
    /\ raised' = {}
    /\ tally' = NoTally
    /\ run' = run + 1
    /\ UNCHANGED <<provider, price_rows, rows_before, summary>>
    /\ UNCHANGED <<valVars, mainVars, rateVars, procVars, svcVars, peerVars,
                 batchVars, convVars>>

\* main is run again: a new orchestrator is constructed (lines 49-62) and
\* ingests the same asset list over the same date range
NewRun ==
    /\ ing_pc = "returned"
    /\ run < MaxRuns
    /\ stats' = [FreshStats EXCEPT !.total_assets = Len(assets)]
    /\ ing_pc' = "loop"
    /\ i' = 0 /\ j' = 0 /\ k' = 0
    /\ calls' = <<>>
    /\ raised' = {}
    /\ tally' = NoTally
    /\ run' = run + 1
    /\ rows_before' = price_rows
    /\ UNCHANGED <<assets, provider, price_rows, summary>>
    /\ UNCHANGED <<valVars, mainVars, rateVars, procVars, svcVars, peerVars,
                 batchVars, convVars>>

\* the rows of `sym` an upsert keyed on (symbol, timestamp) writes
NewStamps(sym) == {ts \in provider[sym] : price_rows[<<sym, ts>>] = 0}

\* the per-symbol outcome of fetching and storing `sym`
StoreOutcome(sym) ==
    IF provider[sym] = {} THEN [status |-> "failed", records_stored |-> 0]
    ELSE IF NewStamps(sym) = {} THEN [status |-> "skipped", records_stored |-> 0]
    ELSE [status |-> "success", records_stored |-> Cardinality(NewStamps(sym))]

\* upsertPriceRecords for the symbols of `group`
UpsertPriceRecords(group) ==
    [x \in DOMAIN price_rows |->
        IF x[1] \in SymbolsOf(group) /\ x[2] \in NewStamps(x[1])
        THEN price_rows[x] + 1 ELSE price_rows[x]]

\* run_multi_fetch_store returns: the group's rows are fetched and upserted
StoreReturn ==
    /\ ing_pc = "await"
    /\ summary' = [sym \in SymbolsOf(GroupOf(i, j)) |-> StoreOutcome(sym)]
    /\ price_rows' = UpsertPriceRecords(GroupOf(i, j))
    /\ ing_pc' = "read"
    /\ k' = 0
    /\ UNCHANGED <<assets, stats, i, j, calls, raised, tally>>
    /\ UNCHANGED <<run, provider, rows_before>>
    /\ UNCHANGED <<valVars, mainVars, rateVars, procVars, svcVars, peerVars,
                 batchVars, convVars>>

\* lines 112-125: the next symbol of the group is read from the stored summary
ReadStored ==
    /\ ing_pc = "read"
    /\ LET res == summary[GroupOf(i, j)[k + 1]]
       IN  /\ stats' = count_symbol(stats, res)
           /\ tally' = [tally EXCEPT ![res.status] = @ + 1,
                                     !.records = @ + (IF res.status = "success"
                                                      THEN res.records_stored ELSE 0)]
    /\ IF k + 1 < Len(GroupOf(i, j))
       THEN /\ k' = k + 1
            /\ UNCHANGED <<i, j, ing_pc>>
       ELSE /\ k' = 0
            /\ i' = NextPos(i, j)[1]
            /\ j' = NextPos(i, j)[2]
            /\ ing_pc' = "loop"
    /\ UNCHANGED <<assets, calls, raised>>
    /\ UNCHANGED storeVars
    /\ UNCHANGED <<valVars, mainVars, rateVars, procVars, svcVars, peerVars,
                 batchVars, convVars>>

(***************************************************************************)
(*                           PipelineService                               *)
(***************************************************************************)
NoMetrics ==
    [start_time |-> <<>>, end_time |-> <<>>,
     tier_1_records_ingested |-> 0, tier_2_records_validated |-> 0,
     tier_3_pairs_analyzed |-> 0, tier_4_cache_entries |-> 0]

\* PipelineService.__init__ (lines 44-55)
SvcIdle ==
    /\ status = "idle"
    /\ metrics = NoMetrics
    /\ svc_pc = "out"
    /\ svc_run = 0
    /\ result = <<>>
    /\ entry_status = "idle"
    /\ entry_metrics = NoMetrics
    /\ tiers_run = <<>>

\* datetime.utcnow().isoformat(): the n-th reading of the clock
Stamp(n) == <<n>>

\* lines 67-75: run_pipeline is entered; status RUNNING, start_time stamped,
\* tier 1 is started
RunPipeline ==
    /\ svc_pc = "out"
    /\ svc_run < MaxPipelineRuns
    /\ entry_status' = status
    /\ entry_metrics' = metrics
    /\ status' = "running"
    /\ metrics' = [metrics EXCEPT !.start_time = Stamp(2 * svc_run + 1)]
    /\ svc_run' = svc_run + 1
    /\ svc_pc' = "tier1"
    /\ tiers_run' = <<"tier1">>
    /\ result' = <<>>
    /\ UNCHANGED <<valVars, ingVars, mainVars, rateVars, storeVars, procVars, peerVars,
                 batchVars, convVars>>

\* Variant: the except branch leaves a failed run paused.
PipelineFailsPauses(error) ==
    /\ status' = "paused"
    /\ metrics' = [metrics EXCEPT !.end_time = Stamp(2 * svc_run)]
    /\ result' = [status |-> "failed", error |-> error]
    /\ svc_pc' = "out"
    /\ UNCHANGED tiers_run

\* Variant: the except branch does not stamp end_time.
PipelineFailsNoEndTime(error) ==
    /\ status' = "failed"
    /\ result' = [status |-> "failed", error |-> error]
    /\ svc_pc' = "out"
    /\ UNCHANGED <<metrics, tiers_run>>

\* lines 111-119: a tier reported failure; the raised exception is caught
PipelineFails(error) ==
    /\ status' = "failed"
    /\ metrics' = [metrics EXCEPT !.end_time = Stamp(2 * svc_run)]
    /\ result' = [status |-> "failed", error |-> error]
    /\ svc_pc' = "out"
    /\ UNCHANGED tiers_run

\* Variant: the outcome of tier 1 is not looked at.
Tier1IgnoresFailure ==
    /\ svc_pc = "tier1"
    /\ \/ metrics' = [metrics EXCEPT !.tier_1_records_ingested = TIER_1_RECORDS]
       \/ UNCHANGED metrics
    /\ status' = "validating"
    /\ svc_pc' = "tier2"
    /\ tiers_run' = Append(tiers_run, "tier2")
    /\ UNCHANGED result
    /\ UNCHANGED <<svc_run, entry_status, entry_metrics>>
    /\ UNCHANGED <<valVars, ingVars, mainVars, rateVars, storeVars, procVars, peerVars,
                 batchVars, convVars>>

\* lines 75-82 and 121-135: tier 1 returns; on success status VALIDATING and
\* tier 2 is started
Tier1 ==
    /\ svc_pc = "tier1"
    /\ \/ /\ metrics' = [metrics EXCEPT !.tier_1_records_ingested = TIER_1_RECORDS]
          /\ status' = "validating"
          /\ svc_pc' = "tier2"
          /\ tiers_run' = Append(tiers_run, "tier2")
          /\ UNCHANGED result
       \/ PipelineFails("Tier 1 ingestion failed")
    /\ UNCHANGED <<svc_run, entry_status, entry_metrics>>
    /\ UNCHANGED <<valVars, ingVars, mainVars, rateVars, storeVars, procVars, peerVars,
                 batchVars, convVars>>

\* Variant: a validated run goes straight to CACHING.
Tier2SkipsComputing ==
    /\ svc_pc = "tier2"
    /\ \/ /\ metrics' = [metrics EXCEPT !.tier_2_records_validated =
                                             metrics.tier_1_records_ingested]
          /\ status' = "caching"
          /\ svc_pc' = "tier3"
          /\ tiers_run' = Append(tiers_run, "tier3")
          /\ UNCHANGED result
       \/ PipelineFails("Tier 2 validation failed")
    /\ UNCHANGED <<svc_run, entry_status, entry_metrics>>
    /\ UNCHANGED <<valVars, ingVars, mainVars, rateVars, storeVars, procVars, peerVars,
                 batchVars, convVars>>

\* lines 82-89 and 137-153: tier 2 returns; on success status COMPUTING and
\* tier 3 is started
Tier2 ==
    /\ svc_pc = "tier2"
    /\ \/ /\ metrics' = [metrics EXCEPT !.tier_2_records_validated =
                                             metrics.tier_1_records_ingested]
          /\ status' = "computing"
          /\ svc_pc' = "tier3"
          /\ tiers_run' = Append(tiers_run, "tier3")
          /\ UNCHANGED result
       \/ PipelineFails("Tier 2 validation failed")
    /\ UNCHANGED <<svc_run, entry_status, entry_metrics>>
    /\ UNCHANGED <<valVars, ingVars, mainVars, rateVars, storeVars, procVars, peerVars,
                 batchVars, convVars>>

\* lines 89-96 and 155-180: tier 3 returns; on success status CACHING and
\* tier 4 is started
Tier3 ==
    /\ svc_pc = "tier3"
    /\ \/ /\ metrics' = [metrics EXCEPT !.tier_3_pairs_analyzed = TIER_3_PAIRS]
          /\ status' = "caching"
          /\ svc_pc' = "tier4"
          /\ tiers_run' = Append(tiers_run, "tier4")
          /\ UNCHANGED result
       \/ PipelineFails("Tier 3 analytics failed")
    /\ UNCHANGED <<svc_run, entry_status, entry_metrics>>
    /\ UNCHANGED <<valVars, ingVars, mainVars, rateVars, storeVars, procVars, peerVars,
                 batchVars, convVars>>

\* lines 96-109 and 182-197: tier 4 returns; on success status COMPLETED,
\* end_time stamped and the success result returned
Tier4 ==
    /\ svc_pc = "tier4"
    /\ \/ /\ status' = "completed"
          /\ metrics' = [metrics EXCEPT !.tier_4_cache_entries = TIER_4_ENTRIES,
                                        !.end_time = Stamp(2 * svc_run)]
          /\ result' = [status |-> "success", message |-> "All tiers completed"]
          /\ svc_pc' = "out"
          /\ UNCHANGED tiers_run
       \/ PipelineFails("Tier 4 caching failed")
    /\ UNCHANGED <<svc_run, entry_status, entry_metrics>>
    /\ UNCHANGED <<valVars, ingVars, mainVars, rateVars, storeVars, procVars, peerVars,
                 batchVars, convVars>>

(***************************************************************************)
(*                      A second client instance                           *)
(***************************************************************************)
\* YFinanceClient.__init__ (lines 55-62) of the other instance
PeerIdle ==
    other = [last_request_time |-> 0, pc |-> "idle", current_time |-> 0,
             sleep_duration |-> 0, requests |-> <<>>]

\* Variant: last_request_time is one attribute shared by all instances.
PeerLastShared == last_request_time

\* self.last_request_time as the other instance reads it (line 145)
PeerLast == other.last_request_time

\* fetch_historical_data is called on the other instance (lines 134-154):
\* its rate-limit block up to the first await
PeerFetch ==
    /\ other.pc = "idle"
    /\ Len(requests) + Owed + Len(other.requests) < MaxRequests
    /\ IF ~respect_server THEN
          other' = [other EXCEPT !.requests = Append(@, now), !.pc = "download"]
       ELSE IF now - PeerLast < Delay THEN
          other' = [other EXCEPT !.current_time = now,
                                 !.sleep_duration = SleepDuration(now - PeerLast),
                                 !.pc = "sleep"]
       ELSE
          other' = [other EXCEPT !.current_time = now,
                                 !.last_request_time = StampTime(now),
                                 !.requests = Append(@, now),
                                 !.pc = "download"]
    /\ UNCHANGED <<valVars, ingVars, mainVars, rateVars, storeVars, procVars, svcVars,
                 batchVars, convVars>>

\* asyncio.sleep of the other instance's call returns (lines 152-154)
PeerWake ==
    /\ other.pc = "sleep"
    /\ now >= other.current_time + other.sleep_duration
    /\ other' = [other EXCEPT !.last_request_time = StampTime(other.current_time),
                              !.requests = Append(@, now),
                              !.pc = "download"]
    /\ UNCHANGED <<valVars, ingVars, mainVars, rateVars, storeVars, procVars, svcVars,
                 batchVars, convVars>>

\* the other instance's download returns or raises (lines 164-191)
PeerDownload ==
    /\ other.pc = "download"
    /\ other' = [other EXCEPT !.pc = "idle"]
    /\ UNCHANGED <<valVars, ingVars, mainVars, rateVars, storeVars, procVars, svcVars,
                 batchVars, convVars>>

(***************************************************************************)
(*                  YFinanceClient.fetch_batch_multi                       *)
(* One call on a client, its groups requested one after the other through  *)
(* the rate-limit block of the client (caller 1).                          *)
(***************************************************************************)
\* no call of fetch_batch_multi has been made
BatchIdle ==
    /\ symbols = <<>>
    /\ group_size = 1
    /\ pos = 0
    /\ results = <<>>
    /\ issued = <<>>
    /\ answers = <<>>
    /\ batch_pc = "idle"

\* what a finished download is: a frame keyed per ticker (or anything that is
\* not a flat frame), a flat frame (columns not a MultiIndex), or an exception
\* raised inside the outer try block
Shapes == {"keyed", "flat", "raise"}

\* lst[i : i + n] (line 215)
GroupAt(lst, n, p) == SubSeq(lst, p + 1, Min(p + n, Len(lst)))

\* len(range(0, len(lst), n)) for n >= 1 (line 214)
NumChunks(len, n) == (len + n - 1) \div n

\* results[s] = ... for the symbols of S
Put(res, S, val) ==
    [s \in DOMAIN res \cup S |-> IF s \in S THEN val[s] ELSE res[s]]

\* lines 256-276: the results dict after one group's download came back
ResultsAfter(res, shape, group) ==
    LET members == {group[x] : x \in DOMAIN group}
    IN  CASE shape = "flat" ->
               \* lines 259-260: only group[0] gets an entry
               {Put(res, {group[1]}, [s \in {group[1]} |-> v]) :
                    v \in {"rows", "empty"}}
          [] shape = "keyed" ->
               \* lines 262-271: a segment, or an empty frame, per symbol
               {Put(res, members,
                    [s \in members |-> IF s \in good THEN "rows" ELSE "empty"]) :
                    good \in SUBSET members}
          [] shape = "raise" ->
               \* lines 273-276: an empty frame for every symbol of the group
               {Put(res, members, [s \in members |-> "empty"])}

\* the group is handed to yf.download when the rate-limit block issues
NoteIssued(group) ==
    issued' = IF Len(requests') > Len(requests) THEN Append(issued, group)
              ELSE issued

\* fetch_batch_multi is called (lines 193-230): the first group, if there is
\* one, reaches the rate-limit block
BatchMultiCall ==
    /\ batch_pc = "idle"
    /\ cpc[1] = "idle"
    /\ \E n \in 0..MaxSymbols, size \in 1..MaxGroupSize :
          /\ Len(requests) + Owed + NumChunks(n, size) <= MaxRequests
          /\ symbols' = AssetList(n)
          /\ group_size' = size
          /\ chunks' = [chunks EXCEPT ![1] = NumChunks(n, size)]
          /\ IF n = 0
             THEN /\ batch_pc' = "returned"
                  /\ issued' = <<>>
                  /\ UNCHANGED <<last_request_time, cpc, current_time,
                                 sleep_duration, requests>>
             ELSE /\ batch_pc' = "running"
                  /\ RateLimit(1)
                  /\ issued' = IF Len(requests') > Len(requests)
                               THEN <<GroupAt(AssetList(n), size, 0)>>
                               ELSE <<>>
    /\ pos' = 0
    /\ results' = <<>>
    /\ answers' = <<>>
    /\ UNCHANGED <<now, respect_server>>
    /\ UNCHANGED <<valVars, ingVars, mainVars, storeVars, procVars, svcVars, peerVars,
                 convVars>>

\* asyncio.sleep returns (lines 229-230) and the group's download is started
BatchWake ==
    /\ batch_pc = "running"
    /\ cpc[1] = "sleep"
    /\ now >= current_time[1] + sleep_duration[1]
    /\ last_request_time' = StampTime(current_time[1])
    /\ Issue(1)
    /\ cpc' = [cpc EXCEPT ![1] = "download"]
    /\ issued' = Append(issued, GroupAt(symbols, group_size, pos))
    /\ UNCHANGED <<now, respect_server, current_time, sleep_duration, chunks>>
    /\ UNCHANGED <<symbols, group_size, pos, results, answers, batch_pc>>
    /\ UNCHANGED <<valVars, ingVars, mainVars, storeVars, procVars, svcVars, peerVars,
                 convVars>>

\* Variant: an exception of a group's download ends the loop.
BatchAnswerAborts(shape) ==
    /\ batch_pc = "running"
    /\ cpc[1] = "download"
    /\ results' \in ResultsAfter(results, shape, GroupAt(symbols, group_size, pos))
    /\ answers' = Append(answers, shape)
    /\ pos' = pos + group_size
    /\ IF pos + group_size < Len(symbols) /\ shape # "raise"
       THEN /\ chunks' = [chunks EXCEPT ![1] = @ - 1]
            /\ RateLimit(1)
            /\ NoteIssued(GroupAt(symbols, group_size, pos + group_size))
            /\ UNCHANGED batch_pc
       ELSE /\ batch_pc' = "returned"
            /\ cpc' = [cpc EXCEPT ![1] = "idle"]
            /\ chunks' = [chunks EXCEPT ![1] = 0]
            /\ UNCHANGED <<last_request_time, current_time, sleep_duration,
                           requests, issued>>
    /\ UNCHANGED <<now, respect_server, symbols, group_size>>
    /\ UNCHANGED <<valVars, ingVars, mainVars, storeVars, procVars, svcVars, peerVars,
                 convVars>>

\* lines 237-278: the download of the current group comes back as `shape`;
\* its symbols are entered into results and the loop goes on to the
\* rate-limit block of the next group, or the call returns results
BatchAnswer(shape) ==
    /\ batch_pc = "running"
    /\ cpc[1] = "download"
    /\ results' \in ResultsAfter(results, shape, GroupAt(symbols, group_size, pos))
    /\ answers' = Append(answers, shape)
    /\ pos' = pos + group_size
    /\ IF pos + group_size < Len(symbols)
       THEN /\ chunks' = [chunks EXCEPT ![1] = @ - 1]
            /\ RateLimit(1)
            /\ NoteIssued(GroupAt(symbols, group_size, pos + group_size))
            /\ UNCHANGED batch_pc
       ELSE /\ batch_pc' = "returned"
            /\ cpc' = [cpc EXCEPT ![1] = "idle"]
            /\ chunks' = [chunks EXCEPT ![1] = 0]
            /\ UNCHANGED <<last_request_time, current_time, sleep_duration,
                           requests, issued>>
    /\ UNCHANGED <<now, respect_server, symbols, group_size>>
    /\ UNCHANGED <<valVars, ingVars, mainVars, storeVars, procVars, svcVars, peerVars,
                 convVars>>

(***************************************************************************)
(*              YFinanceClient._convert_symbol_to_yfinance                 *)
(* Strings are sequences of characters.                                    *)
(***************************************************************************)
DOT_NS  == <<".", "N", "S">>
DOT_BO  == <<".", "B", "O">>
DASH_USD == <<"-", "U", "S", "D">>
DOT_CC  == <<".", "C", "C">>
DOT_NSE == <<".", "N", "S", "E">>
DOT_BSE == <<".", "B", "S", "E">>
DOT_US  == <<".", "U", "S">>

\* sub in s
Contains(s, sub) ==
    \E p \in 1..(Len(s) - Len(sub) + 1) : SubSeq(s, p, p + Len(sub) - 1) = sub

\* s.endswith(suffix)
EndsWith(s, suffix) ==
    /\ Len(s) >= Len(suffix)
    /\ SubSeq(s, Len(s) - Len(suffix) + 1, Len(s)) = suffix

\* s.replace(old, new): every occurrence, from the left, old not empty
RECURSIVE Replace(_, _, _)
Replace(s, old, new) ==
    IF Len(s) < Len(old) THEN s
    ELSE IF SubSeq(s, 1, Len(old)) = old
         THEN new \o Replace(SubSeq(s, Len(old) + 1, Len(s)), old, new)
         ELSE <<s[1]>> \o Replace(Tail(s), old, new)

\* s.split("-")[0]
RECURSIVE SplitFirst(_)
SplitFirst(s) ==
    IF s = <<>> \/ s[1] = "-" THEN <<>>
    ELSE <<s[1]>> \o SplitFirst(Tail(s))

\* lines 64-88
convert_symbol_to_yfinance(sym, atype) ==
    IF Contains(sym, DOT_NS) \/ Contains(sym, DOT_BO) \/ Contains(sym, DASH_USD)
    THEN sym
    ELSE IF atype = "crypto" \/ Contains(sym, DOT_CC)
    THEN LET stripped == IF Contains(sym, DOT_CC) THEN Replace(sym, DOT_CC, <<>>)
                         ELSE sym
         IN  IF ~EndsWith(stripped, DASH_USD)
             THEN SplitFirst(stripped) \o DASH_USD
             ELSE stripped
    ELSE IF Contains(sym, DOT_NSE) THEN Replace(sym, DOT_NSE, DOT_NS)
    ELSE IF EndsWith(sym, DOT_BSE) THEN Replace(sym, DOT_BSE, DOT_BO)
    ELSE IF EndsWith(sym, DOT_US) THEN Replace(sym, DOT_US, <<>>)
    ELSE sym

\* the symbols the conversion is applied to: a name, possibly with a dash or
\* an exchange marker inside, and one of the suffixes the code looks for
BaseNames == {<<"T">>, <<"B", "-", "E">>}
Infixes == {<<>>, DOT_US, DOT_BSE}
Suffixes == {<<>>, DOT_NS, DOT_BO, DASH_USD, DOT_CC, DOT_NSE, DOT_BSE, DOT_US}
SymbolInputs == {b \o m \o x : b \in BaseNames, m \in Infixes, x \in Suffixes}
AssetTypes == {"none", "crypto", "stock"}

\* no conversion has been asked for
ConvIdle ==
    /\ symbol = <<>>
    /\ asset_type = "none"
    /\ converted = <<>>

\* _convert_symbol_to_yfinance(symbol, asset_type) is called and returns
ConvertSymbol ==
    /\ converted = <<>>
    /\ converted' = <<convert_symbol_to_yfinance(symbol, asset_type)>>
    /\ UNCHANGED <<symbol, asset_type>>
    /\ UNCHANGED <<valVars, ingVars, mainVars, rateVars, storeVars, procVars, svcVars,
                   peerVars, batchVars>>

(***************************************************************************)
(*                           Specifications                                *)
(***************************************************************************)
\* The validator run once, against every storage content.
InitValidate ==
    /\ store \in Stores
    /\ ValIdle
    /\ assets = <<>> /\ IngIdle
    /\ MainIdle
    /\ now = 0 /\ respect_server = TRUE /\ RateIdle({1})
    /\ StoreIdle
    /\ exit_code = <<>>
    /\ SvcIdle
    /\ PeerIdle
    /\ BatchIdle
    /\ ConvIdle

NextValidate ==
    \/ ValidateBegin
    \/ CheckCompleteness
    \/ CheckFreshness
    \/ CheckQuality
    \/ CheckAssetCoverage
    \/ ValidateAggregate

SpecValidate == InitValidate /\ [][NextValidate]_vars

\* A freshly constructed orchestrator ingesting one asset list, as main uses it.
InitIngest ==
    /\ store \in {[latest |-> <<>>, recent |-> 0, nulls |-> 0, active |-> 0]}
    /\ ValIdle
    /\ assets \in {AssetList(n) : n \in 0..MaxAssets}
    /\ IngIdle
    /\ MainIdle
    /\ now = 0 /\ respect_server = TRUE /\ RateIdle({1})
    /\ StoreIdle
    /\ exit_code = <<>>
    /\ SvcIdle
    /\ PeerIdle
    /\ BatchIdle
    /\ ConvIdle

NextIngest ==
    \/ IngestBegin
    \/ GroupCall
    \/ GroupRaise
    \/ GroupReturn
    \/ ReadSymbol
    \/ IngestReturn

SpecIngest == InitIngest /\ [][NextIngest]_vars

\* The same run where every awaited group call eventually returns or raises
\* and the event loop keeps running the coroutine between its awaits.
SpecIngestFair ==
    /\ InitIngest
    /\ [][NextIngest]_vars
    /\ WF_vars(GroupRaise \/ GroupReturn)
    /\ WF_vars(IngestBegin \/ GroupCall \/ ReadSymbol \/ IngestReturn)

\* A run whose group calls may return summaries with malformed entries.
InitMalformed ==
    /\ store \in {[latest |-> <<>>, recent |-> 0, nulls |-> 0, active |-> 0]}
    /\ ValIdle
    /\ assets \in {AssetList(n) : n \in 0..MalformedMaxAssets}
    /\ IngIdle
    /\ MainIdle
    /\ now = 0 /\ respect_server = TRUE /\ RateIdle({1})
    /\ StoreIdle
    /\ exit_code = <<>>
    /\ SvcIdle
    /\ PeerIdle
    /\ BatchIdle
    /\ ConvIdle

NextMalformed ==
    \/ IngestBegin
    \/ GroupCall
    \/ GroupRaise
    \/ GroupReturn
    \/ ReadSymbol
    \/ ReadRaises
    \/ IngestReturn

SpecIngestMalformed == InitMalformed /\ [][NextMalformed]_vars

\* One run of main.
InitMain ==
    /\ store \in {[latest |-> <<>>, recent |-> 0, nulls |-> 0, active |-> 0]}
    /\ ValIdle
    /\ assets = <<>> /\ IngIdle
    /\ MainIdle
    /\ now = 0 /\ respect_server = TRUE /\ RateIdle({1})
    /\ StoreIdle
    /\ exit_code = <<>>
    /\ SvcIdle
    /\ PeerIdle
    /\ BatchIdle
    /\ ConvIdle

NextMain ==
    \/ MainFetchRaises
    \/ MainNoAssets
    \/ MainIngest
    \/ GroupCall
    \/ GroupRaise
    \/ GroupReturn
    \/ ReadSymbol
    \/ IngestReturn
    \/ MainValidatorRaises
    \/ MainValidate
    \/ CheckCompleteness
    \/ CheckFreshness
    \/ CheckQuality
    \/ CheckAssetCoverage
    \/ ValidateAggregate
    \/ MainValidationFailed
    \/ MainProceed
    \/ ProcessExit

Spec == InitMain /\ [][NextMain]_vars

\* One client driven by a single caller, one call after the other.
InitRate ==
    /\ store \in {[latest |-> <<>>, recent |-> 0, nulls |-> 0, active |-> 0]}
    /\ ValIdle
    /\ assets = <<>> /\ IngIdle
    /\ MainIdle
    /\ now \in 0..Delay
    /\ respect_server \in BOOLEAN
    /\ RateIdle({1})
    /\ StoreIdle
    /\ exit_code = <<>>
    /\ SvcIdle
    /\ PeerIdle
    /\ BatchIdle
    /\ ConvIdle

NextRate ==
    \/ \E c \in Callers : FetchHistorical(c)
    \/ \E c \in Callers : FetchBatchMulti(c)
    \/ \E c \in Callers : Wake(c)
    \/ \E c \in Callers : DownloadLast(c)
    \/ \E c \in Callers : DownloadNext(c)
    \/ Tick

SpecRate == InitRate /\ [][NextRate]_vars

\* One client shared by two callers whose fetch calls interleave.
InitRateShared ==
    /\ store \in {[latest |-> <<>>, recent |-> 0, nulls |-> 0, active |-> 0]}
    /\ ValIdle
    /\ assets = <<>> /\ IngIdle
    /\ MainIdle
    /\ now \in 0..Delay
    /\ respect_server \in BOOLEAN
    /\ RateIdle({1, 2})
    /\ StoreIdle
    /\ exit_code = <<>>
    /\ SvcIdle
    /\ PeerIdle
    /\ BatchIdle
    /\ ConvIdle

SpecRateShared == InitRateShared /\ [][NextRate]_vars

\* One orchestrator whose ingest_daily_data is invoked repeatedly.
InitReinvoke ==
    /\ store \in {[latest |-> <<>>, recent |-> 0, nulls |-> 0, active |-> 0]}
    /\ ValIdle
    /\ assets \in {AssetList(n) : n \in 0..RerunMaxAssets}
    /\ IngIdle
    /\ MainIdle
    /\ now = 0 /\ respect_server = TRUE /\ RateIdle({1})
    /\ StoreIdle
    /\ exit_code = <<>>
    /\ SvcIdle
    /\ PeerIdle
    /\ BatchIdle
    /\ ConvIdle

NextReinvoke ==
    \/ IngestBegin
    \/ GroupCall
    \/ GroupRaise
    \/ GroupReturn
    \/ ReadSymbol
    \/ IngestReturn
    \/ IngestAgain

SpecReinvoke == InitReinvoke /\ [][NextReinvoke]_vars

\* Repeated runs of the pipeline's ingestion over one date range, against a
\* price store with an upsert keyed on (symbol, timestamp).
InitIdempotent ==
    /\ store \in {[latest |-> <<>>, recent |-> 0, nulls |-> 0, active |-> 0]}
    /\ ValIdle
    /\ assets \in {AssetList(n) : n \in 1..IdemMaxAssets}
    /\ IngIdle
    /\ MainIdle
    /\ now = 0 /\ respect_server = TRUE /\ RateIdle({1})
    /\ run = 1
    /\ provider \in [SymbolsOf(assets) -> SUBSET Stamps]
    /\ price_rows = [x \in SymbolsOf(assets) \X Stamps |-> 0]
    /\ rows_before = price_rows
    /\ summary = <<>>
    /\ exit_code = <<>>
    /\ SvcIdle
    /\ PeerIdle
    /\ BatchIdle
    /\ ConvIdle

NextIdempotent ==
    \/ IngestBegin
    \/ GroupCall
    \/ GroupRaise
    \/ StoreReturn
    \/ ReadStored
    \/ IngestReturn
    \/ NewRun

SpecIdempotent == InitIdempotent /\ [][NextIdempotent]_vars

\* One PipelineService whose run_pipeline is invoked one time after another.
InitPipeline ==
    /\ store \in {[latest |-> <<>>, recent |-> 0, nulls |-> 0, active |-> 0]}
    /\ ValIdle
    /\ assets = <<>> /\ IngIdle
    /\ MainIdle
    /\ now = 0 /\ respect_server = TRUE /\ RateIdle({1})
    /\ StoreIdle
    /\ exit_code = <<>>
    /\ SvcIdle
    /\ PeerIdle
    /\ BatchIdle
    /\ ConvIdle

NextPipeline ==
    \/ RunPipeline
    \/ Tier1
    \/ Tier2
    \/ Tier3
    \/ Tier4

SpecPipeline == InitPipeline /\ [][NextPipeline]_vars

\* Two client instances, as two calls of get_yfinance_client give them, each
\* with its own caller.
NextRatePeers ==
    \/ \E c \in Callers : FetchHistorical(c)
    \/ \E c \in Callers : Wake(c)
    \/ \E c \in Callers : DownloadLast(c)
    \/ Tick
    \/ PeerFetch
    \/ PeerWake
    \/ PeerDownload

SpecRatePeers == InitRate /\ [][NextRatePeers]_vars

\* One call of fetch_batch_multi on a new client.
InitBatchMulti ==
    /\ store \in {[latest |-> <<>>, recent |-> 0, nulls |-> 0, active |-> 0]}
    /\ ValIdle
    /\ assets = <<>> /\ IngIdle
    /\ MainIdle
    /\ now \in 0..Delay
    /\ respect_server \in BOOLEAN
    /\ RateIdle({1})
    /\ StoreIdle
    /\ exit_code = <<>>
    /\ SvcIdle
    /\ PeerIdle
    /\ BatchIdle
    /\ ConvIdle

NextBatchMulti ==
    \/ BatchMultiCall
    \/ BatchWake
    \/ \E shape \in Shapes : BatchAnswer(shape)
    \/ Tick

SpecBatchMulti == InitBatchMulti /\ [][NextBatchMulti]_vars

\* The symbol conversion applied to one symbol and asset type.
InitConvert ==
    /\ store \in {[latest |-> <<>>, recent |-> 0, nulls |-> 0, active |-> 0]}
    /\ ValIdle
    /\ assets = <<>> /\ IngIdle
    /\ MainIdle
    /\ now = 0 /\ respect_server = TRUE /\ RateIdle({1})
    /\ StoreIdle
    /\ exit_code = <<>>
    /\ SvcIdle
    /\ PeerIdle
    /\ BatchIdle
    /\ symbol \in SymbolInputs
    /\ asset_type \in AssetTypes
    /\ converted = <<>>

NextConvert == ConvertSymbol

SpecConvert == InitConvert /\ [][NextConvert]_vars

(***************************************************************************)
(*                              Properties                                 *)
(***************************************************************************)
Range(seq) == {seq[x] : x \in DOMAIN seq}
Occurrences(seq, e) == Cardinality({x \in DOMAIN seq : seq[x] = e})
Recorded(name) == name \in DOMAIN validation_results.checks
Passed(name) == Recorded(name) /\ validation_results.checks[name].passed

\* C1: after validate_all the report's passed flag is true exactly when the
\* completeness, freshness and asset_coverage checks all have passed=true,
\* and for the same storage and the same outcome of those three checks the
\* flag is the same whatever the null count is and whether or not the quality
\* query raised.
AggregateIffCritical ==
    val_pc = "returned" =>
        /\ validation_results.passed <=>
              (Passed("completeness") /\ Passed("freshness") /\ Passed("asset_coverage"))
        /\ \A nulls \in NullCounts, qexc \in BOOLEAN :
              validate_all(FreshResults, [store EXCEPT !.nulls = nulls],
                           IF qexc THEN qfail \cup {"quality"}
                           ELSE qfail \ {"quality"}).passed
                = validation_results.passed

\* C1 witness: a report that passed although the quality check warned.
PassedWithWarning ==
    /\ val_pc = "returned"
    /\ validation_results.passed
    /\ validation_results.warnings # <<>>

\* C2: in main, a report with passed=false makes the run return False without
\* reaching "Proceeding to analytics"; analytics is reached only behind a
\* passed report; and the run returns True only if the asset list was
\* non-empty, ingestion returned and the report has passed=true.
ValidationGatesAnalytics ==
    /\ (main_pc = "returned" /\ val_pc = "returned" /\ ~validation_results.passed)
          => (success = <<FALSE>> /\ ~analytics)
    /\ analytics => (val_pc = "returned" /\ validation_results.passed)
    /\ success = <<TRUE>> =>
          /\ fetched = "listed" /\ assets # <<>>
          /\ ing_pc = "returned"
          /\ val_pc = "returned" /\ validation_results.passed

\* C2 witness: a run that ingested, failed validation and returned False.
ReturnedFalseOnFailedReport ==
    /\ main_pc = "returned"
    /\ ing_pc = "returned"
    /\ val_pc = "returned"
    /\ ~validation_results.passed
    /\ success = <<FALSE>>
    /\ ~analytics

RaisedSymbols ==
    LET RECURSIVE Sum(_)
        Sum(S) == IF S = {} THEN 0
                  ELSE LET g == CHOOSE x \in S : TRUE
                       IN  Len(calls[g]) + Sum(S \ {g})
    IN  Sum(raised)

\* The consecutive groups of at most GROUP_SIZE symbols of the asset list.
ExpectedGroups ==
    [m \in 1..((Len(assets) + GROUP_SIZE - 1) \div GROUP_SIZE) |->
        SubSeq(assets, GROUP_SIZE * (m - 1) + 1, Min(GROUP_SIZE * m, Len(assets)))]

\* C4: a raised group call counts every symbol of its group as failed and
\* nothing else; the run is not aborted: at the return every group of the
\* list has been fetched, in order, and the groups that returned are counted
\* from their own outcomes.
RaiseIsolated ==
    /\ stats.failed >= RaisedSymbols
    /\ ing_pc = "returned" =>
          /\ calls = ExpectedGroups
          /\ stats.failed = RaisedSymbols + tally.failed + tally.none
          /\ stats.successful = tally.success
          /\ stats.skipped = tally.skipped
          /\ stats.total_records = tally.records

\* C4 witness: the first group raised, the later groups (one of them in the
\* next batch) were fetched and all their symbols succeeded.
FirstGroupRaisedOthersCounted ==
    /\ ing_pc = "returned"
    /\ raised = {1}
    /\ Len(calls) = 3
    /\ stats.failed = GROUP_SIZE
    /\ stats.successful = Len(assets) - GROUP_SIZE

\* C5: with respect_server enabled and one sequential caller, consecutive
\* download requests are issued at least delay_between_requests apart.
SequentialGap ==
    respect_server =>
        \A q \in 1..(Len(requests) - 1) :
            requests[q + 1][1] - requests[q][1] >= Delay

\* C5 witness: two requests issued, the second after a rate-limit wait.
SecondRequestWaited ==
    /\ respect_server
    /\ Len(requests) >= 2
    /\ requests[2][1] - requests[1][1] = Delay
    /\ sleep_duration[1] > 0

\* C6: with two callers interleaving on one client, any two download requests
\* are issued at least delay_between_requests apart.
SharedGap ==
    respect_server =>
        \A p, q \in DOMAIN requests :
            p < q => requests[q][1] - requests[p][1] >= Delay

\* C7: when the fetched active-asset list is empty, main has returned False
\* in that same step, ingest_daily_data and validate_all were never entered,
\* and the ingestion stats and the validation report are as constructed.
EmptyListAborts ==
    (fetched = "listed" /\ assets = <<>>) =>
        /\ main_pc \in {"returned", "exited"}
        /\ success = <<FALSE>>
        /\ ing_pc = "idle" /\ calls = <<>> /\ stats = FreshStats
        /\ val_pc = "idle" /\ validation_results = FreshResults

\* C7 witness: main returned False on an empty list.
ReturnedOnEmptyList ==
    /\ fetched = "listed"
    /\ assets = <<>>
    /\ main_pc = "returned"
    /\ success = <<FALSE>>

\* C8: the freshness check passes exactly when a most recent row exists, its
\* query did not raise, and its age is at most 48 hours = 172800 s (closed
\* boundary); an older row fails the check with a stale-data error.
FreshnessClosedBoundary ==
    Recorded("freshness") =>
        /\ validation_results.checks["freshness"].passed <=>
              /\ "freshness" \notin qfail
              /\ store.latest # <<>>
              /\ store.latest[1] <= 172800
        /\ ("freshness" \notin qfail /\ store.latest # <<>>) =>
              (Occurrences(validation_results.errors, <<"Stale data", store.latest[1]>>)
                 = IF store.latest[1] <= 172800 THEN 0 ELSE 1)

\* C8 witness: a latest row exactly 48 hours old passed the check.
BoundaryAgePassed ==
    /\ val_pc = "returned"
    /\ store.latest = <<172800>>
    /\ Passed("freshness")

\* C9: with no price rows at all the freshness check is recorded passed=false
\* with the "no data found" detail, exactly one error comes from it, and the
\* report's verdict is passed=false whatever the other checks say.
NoRowsFailsFreshness ==
    (Recorded("freshness") /\ store.latest = <<>> /\ "freshness" \notin qfail) =>
        /\ validation_results.checks["freshness"] =
              [passed |-> FALSE, details |-> <<"No data found in price_history">>]
        /\ Occurrences(validation_results.errors, <<"No data in price_history table">>) = 1
        /\ \A e \in Range(validation_results.errors) :
              e[1] \notin {"Stale data", "Freshness check error"}
        /\ ~validation_results.passed

\* C9 witness: an empty store whose completeness check passed and whose
\* verdict is still passed=false.
EmptyStoreReportFailed ==
    /\ val_pc = "returned"
    /\ store.latest = <<>>
    /\ "freshness" \notin qfail
    /\ Passed("completeness")
    /\ ~validation_results.passed

\* the null-close ratio exceeds MAX_MISSING_RATIO = 0.1
HighNullRatio == store.nulls * 10 > (IF store.recent = 0 THEN 1 ELSE store.recent)

\* C10: the quality check is always recorded passed=true; the check appends
\* no error; with a ratio above MAX_MISSING_RATIO it appends exactly one
\* warning, with a ratio at most MAX_MISSING_RATIO it appends nothing.
QualityAdvisory ==
    /\ [](Recorded("quality") => validation_results.checks["quality"].passed)
    /\ [][(val_pc = "quality" /\ val_pc' # "quality") =>
            /\ "quality" \in DOMAIN validation_results'.checks
            /\ validation_results'.errors = validation_results.errors
            /\ ("quality" \notin qfail' /\ HighNullRatio) =>
                  validation_results'.warnings =
                      Append(validation_results.warnings,
                             <<"High null ratio", store.nulls, store.recent>>)
            /\ ("quality" \notin qfail' /\ ~HighNullRatio) =>
                  validation_results'.warnings = validation_results.warnings
          ]_vars

\* C10 witness: a ratio of 3/20 = 15% left quality passed with one warning.
FifteenPercentWarned ==
    /\ val_pc = "returned"
    /\ store.nulls = 3 /\ store.recent = 20
    /\ "quality" \notin qfail
    /\ Passed("quality")
    /\ validation_results.warnings = << <<"High null ratio", 3, 20>> >>

QueryErrorOf(name) ==
    CASE name = "completeness" -> <<"Completeness check error">>
      [] name = "freshness" -> <<"Freshness check error">>
      [] name = "asset_coverage" -> <<"Asset coverage error">>
      [] name = "quality" -> <<"Quality check error">>

\* C13: a check whose storage query raised is recorded with the exception
\* text in details: passed=false and one error for completeness, freshness
\* and asset_coverage; passed=true, one warning and no error for quality.
\* validate_all goes on to its next step whatever raised.
QueryFailureRecorded ==
    /\ \A name \in qfail :
          /\ Recorded(name)
          /\ validation_results.checks[name] =
                [passed |-> (name = "quality"), details |-> <<"exception">>]
          /\ Occurrences(validation_results.errors, QueryErrorOf(name))
                = IF name = "quality" THEN 0 ELSE 1
          /\ Occurrences(validation_results.warnings, QueryErrorOf(name))
                = IF name = "quality" THEN 1 ELSE 0
    /\ \A name \in CheckNames \ qfail :
          /\ QueryErrorOf(name) \notin Range(validation_results.errors)
          /\ QueryErrorOf(name) \notin Range(validation_results.warnings)
    /\ (val_pc \in CheckNames \cup {"aggregate"}) => ENABLED NextValidate

\* C13 witness: validate_all returned although the query of every check raised.
AllQueriesRaisedReturned ==
    /\ val_pc = "returned"
    /\ qfail = CheckNames
    /\ Len(validation_results.errors) = 3
    /\ Len(validation_results.warnings) = 1

\* what a check records when it runs alone on a fresh validator
AloneResult(name) ==
    CASE name = "completeness" ->
           check_data_completeness(FreshResults, store, name \in qfail).checks[name]
      [] name = "freshness" ->
           check_data_freshness(FreshResults, store, name \in qfail).checks[name]
      [] name = "quality" ->
           check_data_quality(FreshResults, store, name \in qfail).checks[name]
      [] name = "asset_coverage" ->
           check_asset_coverage(FreshResults, store, name \in qfail).checks[name]

\* C14: after validate_all the checks map holds exactly the four entries
\* completeness, freshness, quality and asset_coverage, and each entry is what
\* its check records on its own, whatever the other checks found.
FourChecksIndependent ==
    val_pc = "returned" =>
        /\ DOMAIN validation_results.checks = CheckNames
        /\ \A name \in CheckNames :
              validation_results.checks[name] = AloneResult(name)

\* C14 witness: completeness and freshness failed (one by a raised query) and
\* the two later checks still ran and passed.
LaterChecksRanAfterFailures ==
    /\ val_pc = "returned"
    /\ "completeness" \in qfail
    /\ "freshness" \notin qfail /\ ~Passed("freshness")
    /\ Passed("quality")
    /\ Passed("asset_coverage")

\* concatenation of a sequence of sequences
RECURSIVE Flatten(_)
Flatten(seqs) ==
    IF seqs = <<>> THEN <<>> ELSE seqs[1] \o Flatten(Tail(seqs))

\* consecutive chunks of at most `size` elements of `seq`
Chunks(seq, size) ==
    [m \in 1..((Len(seq) + size - 1) \div size) |->
        SubSeq(seq, size * (m - 1) + 1, Min(size * m, Len(seq)))]

\* the groups of every batch of the asset list, batch after batch
BatchedGroups ==
    LET batches == Chunks(assets, 10)
    IN  Flatten([b \in DOMAIN batches |-> Chunks(batches[b], 5)])

\* the number of groups a list of n assets is cut into
NumGroups(n) ==
    LET RECURSIVE Count(_)
        Count(b) == IF b >= n THEN 0
                    ELSE (Min(10, n - b) + 4) \div 5 + Count(b + 10)
    IN  Count(0)

\* C15: at the return the calls issued are exactly the groups of at most
\* GROUP_SIZE consecutive assets of the consecutive batches of BATCH_SIZE,
\* one call per group; the groups are not empty, together they are the asset
\* list, and every asset is in exactly one of them (120 assets: 24 calls).
OneCallPerGroup ==
    ing_pc = "returned" =>
        /\ calls = BatchedGroups
        /\ Flatten(calls) = assets
        /\ \A m \in DOMAIN calls : Len(calls[m]) \in 1..5
        /\ \A a \in Range(assets) :
              Cardinality({m \in DOMAIN calls : a \in Range(calls[m])}) = 1
        /\ Len(calls) = NumGroups(Len(assets))
        /\ NumGroups(120) = 24

\* C15 witness: twelve assets were fetched in groups of 5, 5 and 2.
TwelveAssetsThreeGroups ==
    /\ ing_pc = "returned"
    /\ Len(assets) = 12
    /\ Len(calls) = 3
    /\ Len(calls[2]) = 5 /\ Len(calls[3]) = 2

\* C16: group calls are issued one at a time and in list order: a call is
\* issued only when no call is awaited or being read, it is the one next
\* group after those already issued, and no group is issued twice.
SequentialInOrder ==
    /\ [](/\ Len(calls) <= Len(ExpectedGroups)
          /\ calls = SubSeq(ExpectedGroups, 1, Len(calls))
          /\ \A m, n \in DOMAIN calls : calls[m] = calls[n] => m = n)
    /\ [][calls' # calls =>
            /\ ing_pc = "loop" /\ ing_pc' = "await"
            /\ Len(calls) < Len(ExpectedGroups)
            /\ calls' = Append(calls, ExpectedGroups[Len(calls) + 1])]_vars

\* C16 witness: the third group is awaited after the first returned and the
\* second raised.
ThirdGroupAfterReturnAndRaise ==
    /\ ing_pc = "await"
    /\ Len(calls) = 3
    /\ raised = {2}
    /\ tally.success + tally.skipped + tally.failed + tally.none = GROUP_SIZE

EmptyListRejected ==
    ~(assets = <<>> /\ ing_pc = "returned")

\* C19: whenever ingest_daily_data returns, successful, failed, skipped and
\* total_records are what this invocation alone counted.
StatsReflectInvocation ==
    ing_pc = "returned" =>
        /\ stats.successful = tally.success
        /\ stats.skipped = tally.skipped
        /\ stats.failed = tally.failed + tally.none + RaisedSymbols
        /\ stats.total_records = tally.records

\* every symbol has rows in the range and all of them were stored when the
\* current run began
AllStoredBefore ==
    \A sym \in Range(assets) :
        /\ provider[sym] # {}
        /\ \A ts \in provider[sym] : rows_before[<<sym, ts>>] = 1

IngestTerminates ==
    (assets # <<>>) ~> (ing_pc = "returned")

\* C21 witness: a run over two batches returned although its first and last
\* group calls raised.
ReturnedDespiteRaises ==
    /\ ing_pc = "returned"
    /\ Len(assets) > BATCH_SIZE
    /\ raised = {1, Len(calls)}
    /\ Len(calls) = 3
    /\ stats.total_assets = Len(assets)

\* C22: the controller's steps follow one another: ingestion is entered only
\* with a fetched, non-empty asset list; validate_all is entered only after
\* ingest_daily_data has returned, so never while ingestion is in progress;
\* main decides on the report, and returns, only after validate_all returned.
ControllerSequenced ==
    /\ ing_pc # "idle" => (fetched = "listed" /\ assets # <<>>)
    /\ val_pc # "idle" => (ing_pc = "returned" /\ main_pc # "ingest")
    /\ main_pc = "validate" => val_pc # "idle"
    /\ (val_pc # "idle" /\ main_pc \notin {"start", "ingest", "validate"}) =>
          val_pc = "returned"
    /\ analytics => val_pc = "returned"
    /\ success # <<>> => main_pc \notin {"start", "ingest", "validate"}

\* C22 witness: validate_all is at its second check after an ingestion with
\* a raised group call has returned.
ValidatingAfterIngestReturned ==
    /\ main_pc = "validate"
    /\ val_pc = "freshness"
    /\ ing_pc = "returned"
    /\ raised = {1}
    /\ success = <<>>

\* the validator's constructor raised after ingestion had returned
ValidatorRaised ==
    main_pc \in {"returned", "exited"} /\ ing_pc = "returned" /\ val_pc = "idle"

\* C26: the process exits with code 0 exactly when main returned True; it
\* exits with a non-zero code when main returned False, which it does
\* whenever an exception was raised during the run.
ExitCodeIffSuccess ==
    /\ main_pc # "exited" => exit_code = <<>>
    /\ main_pc = "exited" =>
          /\ exit_code \in {<<0>>, <<1>>}
          /\ exit_code = <<0>> <=> success = <<TRUE>>
          /\ (fetched = "raised" \/ ValidatorRaised) => exit_code = <<1>>
          /\ success = <<FALSE>> => exit_code = <<1>>

\* C26 witness: the process exited 1 after the validator's constructor raised.
ExitedOneAfterException ==
    /\ main_pc = "exited"
    /\ ValidatorRaised
    /\ exit_code = <<1>>

\* C27: when the fetch of the active assets raises, main returns False and
\* neither ingest_daily_data nor validate_all is invoked.
FetchRaiseAborts ==
    fetched = "raised" =>
        /\ main_pc \in {"returned", "exited"}
        /\ success = <<FALSE>>
        /\ ing_pc = "idle" /\ calls = <<>> /\ stats = FreshStats
        /\ val_pc = "idle" /\ validation_results = FreshResults
        /\ ~analytics

\* C27 witness: the fetch raised and the process has exited.
ExitedAfterFetchRaised ==
    /\ main_pc = "exited"
    /\ fetched = "raised"
    /\ success = <<FALSE>>
    /\ ing_pc = "idle" /\ val_pc = "idle"

\* C28: the result main returns on a fatal-precondition abort (no active
\* assets, or the asset fetch raised) differs from [success |-> FALSE], the
\* result it returns on a validation failure.
FatalAbortReportedDistinctly ==
    (main_pc = "returned" /\ ing_pc = "idle" /\ fetched \in {"raised", "listed"}) =>
        MainResult # [success |-> FALSE]

\* C29: on a validation failure the result main returns carries the
\* ingestion stats and the validation report together with success=false.
ValidationFailureCarriesBoth ==
    (main_pc = "returned" /\ val_pc = "returned" /\ ~validation_results.passed) =>
        /\ {"success", "stats", "report"} \subseteq DOMAIN MainResult
        /\ MainResult.success = FALSE

\* C23 as stated: inside a run the status changes only along RUNNING ->
\* VALIDATING -> COMPLETED or FAILED; from VALIDATING the only next statuses
\* are COMPLETED and FAILED.
StatusGraphClaimed ==
    [][(svc_pc # "out" /\ status' # status) =>
          <<status, status'>> \in {<<"running", "validating">>,
                                   <<"running", "failed">>,
                                   <<"validating", "completed">>,
                                   <<"validating", "failed">>}]_vars

\* C23: inside a run the status changes only along RUNNING -> VALIDATING ->
\* COMPUTING -> CACHING -> COMPLETED, or from any of the first four to
\* FAILED; run_pipeline returns with COMPLETED or FAILED, and that status
\* changes again only when a later invocation sets RUNNING.
StatusGraph ==
    /\ [](svc_pc = "out" => status \in {"idle", "completed", "failed"})
    /\ [](svc_pc # "out" => status \in {"running", "validating", "computing", "caching"})
    /\ [][status' # status =>
            IF svc_pc = "out"
            THEN status' = "running" /\ svc_pc' = "tier1"
            ELSE <<status, status'>> \in
                    {<<"running", "validating">>, <<"validating", "computing">>,
                     <<"computing", "caching">>, <<"caching", "completed">>}
                    \cup ({"running", "validating", "computing", "caching"}
                            \X {"failed"})]_vars

\* C23 witness: a run that has passed VALIDATING and COMPUTING is CACHING.
CachingAfterComputing ==
    /\ status = "caching"
    /\ svc_run = 1
    /\ tiers_run = <<"tier1", "tier2", "tier3", "tier4">>

\* C24: through run_pipeline invocations alone the status is never PAUSED.
NeverPaused ==
    /\ status # "paused"
    /\ entry_status # "paused"

\* C24 witness: a second run has failed after a completed first one, and the
\* service is not paused.
FailedAfterCompletedNotPaused ==
    /\ svc_run = 2
    /\ svc_pc = "out"
    /\ entry_status = "completed"
    /\ status = "failed"

\* C25: every invocation of run_pipeline begins with status IDLE and with
\* metrics (end_time and the tier counters included) at their initial values.
RunStartsFresh ==
    svc_pc # "out" =>
        /\ entry_status = "idle"
        /\ entry_metrics = NoMetrics

\* the time of the other instance's own last request, 0.0 before its first
PeerOwnLast ==
    IF other.requests = <<>> THEN 0 ELSE other.requests[Len(other.requests)]

\* the time of the first instance's own last request, 0.0 before its first
OwnLast ==
    IF requests = <<>> THEN 0 ELSE requests[Len(requests)][1]

TierOrder == <<"tier1", "tier2", "tier3", "tier4">>

\* C34: the tiers of a run are started in the order ingestion, validation,
\* analytics, caching, each only after the tier before it has succeeded in
\* this run; COMPUTING is the status exactly while tier 3 runs, after tier 2
\* succeeded; a failing tier ends the run FAILED with no later tier started.
TiersInOrder ==
    /\ [](/\ tiers_run = SubSeq(TierOrder, 1, Len(tiers_run))
          /\ Len(tiers_run) >= 2 => metrics.tier_1_records_ingested = TIER_1_RECORDS
          /\ Len(tiers_run) >= 3 => metrics.tier_2_records_validated = TIER_1_RECORDS
          /\ Len(tiers_run) >= 4 => metrics.tier_3_pairs_analyzed = TIER_3_PAIRS
          /\ status = "computing" <=> svc_pc = "tier3"
          /\ svc_pc # "out" => svc_pc = tiers_run[Len(tiers_run)])
    /\ [][/\ (svc_pc # "out" /\ tiers_run' # tiers_run) =>
               (tiers_run' = Append(tiers_run, TierOrder[Len(tiers_run) + 1])
                  /\ status' \notin {"failed", "completed"})
          /\ (svc_pc # "out" /\ status' = "failed") =>
               /\ tiers_run' = tiers_run
               /\ svc_pc' = "out"
               /\ result'.status = "failed"]_vars

\* C34 witness: tier 2 failed in the first run; analytics and caching were
\* not started.
SecondTierFailedRunEnded ==
    /\ svc_run = 1
    /\ svc_pc = "out"
    /\ status = "failed"
    /\ tiers_run = <<"tier1", "tier2">>
    /\ result.error = "Tier 2 validation failed"
    /\ metrics.tier_3_pairs_analyzed = 0

\* C37: when run_pipeline has returned, status is COMPLETED or FAILED, the
\* result's status is 'success' exactly with COMPLETED and 'failed', with an
\* error text, exactly with FAILED, and end_time has been stamped by this run.
ReturnedResultMatchesStatus ==
    (svc_pc = "out" /\ svc_run > 0) =>
        /\ status \in {"completed", "failed"}
        /\ result # <<>>
        /\ result.status \in {"success", "failed"}
        /\ result.status = "success" <=> status = "completed"
        /\ result.status = "failed" <=> status = "failed"
        /\ result.status = "failed" => "error" \in DOMAIN result
        /\ metrics.end_time = Stamp(2 * svc_run)
        /\ metrics.start_time = Stamp(2 * svc_run - 1)

\* C37 witness: the second run returned 'failed' from its last tier.
SecondRunFailedInCaching ==
    /\ svc_run = 2
    /\ svc_pc = "out"
    /\ status = "failed"
    /\ result = [status |-> "failed", error |-> "Tier 4 caching failed"]
    /\ metrics.end_time = <<4>>

\* the check an error of the report comes from, by its position in validate_all
ErrorRank(e) ==
    CASE e[1] \in {"Completeness check error", "Insufficient data points"} -> 1
      [] e[1] \in {"Freshness check error", "Stale data",
                   "No data in price_history table"} -> 2
      [] e[1] \in {"Asset coverage error", "Insufficient active assets"} -> 4
      [] OTHER -> 3

\* C36: after validate_all on a new validator, passed is true exactly when
\* errors is empty; there is one error per failed critical check, the errors
\* stand in the order of their checks, and warnings has at most one entry.
ErrorsMatchFailedChecks ==
    val_pc = "returned" =>
        /\ validation_results.passed <=> validation_results.errors = <<>>
        /\ Len(validation_results.errors) =
              Cardinality({c \in {"completeness", "freshness", "asset_coverage"} :
                             ~Passed(c)})
        /\ \A c \in {"completeness", "freshness", "asset_coverage"} :
              Cardinality({x \in DOMAIN validation_results.errors :
                  ErrorRank(validation_results.errors[x]) =
                      (CASE c = "completeness" -> 1 [] c = "freshness" -> 2
                         [] c = "asset_coverage" -> 4)})
                = IF Passed(c) THEN 0 ELSE 1
        /\ \A x, y \in DOMAIN validation_results.errors :
              x < y => ErrorRank(validation_results.errors[x])
                         < ErrorRank(validation_results.errors[y])
        /\ Len(validation_results.warnings) <= 1

\* C36 witness: all three critical checks failed, the errors stand in check
\* order and the quality check left one warning.
ThreeErrorsInOrder ==
    /\ val_pc = "returned"
    /\ qfail = {}
    /\ Len(validation_results.errors) = 3
    /\ validation_results.errors[1][1] = "Insufficient data points"
    /\ validation_results.errors[2][1] = "Stale data"
    /\ validation_results.errors[3][1] = "Insufficient active assets"
    /\ Len(validation_results.warnings) = 1

\* C35: the null ratio of the quality check lies between 0 and 1, and with no
\* row in the trailing window the high-null-ratio warning is not raised.
NullRatioWithinWindow ==
    (Recorded("quality") /\ "quality" \notin qfail) =>
        /\ store.nulls <= (IF store.recent = 0 THEN 1 ELSE store.recent)
        /\ store.recent = 0 =>
              <<"High null ratio", store.nulls, store.recent>>
                  \notin Range(validation_results.warnings)

\* C38: with respect_server false no fetch waits and last_request_time keeps
\* its value; with respect_server true every request that is issued sets
\* last_request_time to the time of issue; last_request_time never decreases.
StampOnlyWhenRespecting ==
    /\ [](~respect_server => \A c \in Callers : cpc[c] # "sleep")
    /\ [][/\ ~respect_server => last_request_time' = last_request_time
          /\ (respect_server /\ requests' # requests) =>
                /\ Len(requests') = Len(requests) + 1
                /\ last_request_time' = requests'[Len(requests')][1]
                /\ last_request_time' = now
          /\ last_request_time' >= last_request_time]_vars

\* C38 witness: with respect_server true a fetch waited and its request was
\* stamped at the later time at which it was issued.
StampedAfterWait ==
    /\ respect_server
    /\ Len(requests) = 2
    /\ requests[2][1] >= requests[1][1] + Delay
    /\ requests[1][1] > 0
    /\ last_request_time = requests[2][1]

\* C33: between groups and at the return, every symbol of the groups called
\* so far has been counted exactly once among successful, failed and skipped,
\* also when reading a group's outcomes raised after some symbols of it were
\* counted.
EachSymbolCountedOnce ==
    ing_pc \in {"loop", "returned"} =>
        stats.successful + stats.failed + stats.skipped = Len(Flatten(calls))

\* C31: when fetch_batch_multi returns, its map holds an entry, rows or an
\* empty frame, for every requested symbol, whatever the downloads came back
\* as.
EverySymbolHasEntry ==
    batch_pc = "returned" =>
        /\ DOMAIN results = Range(symbols)
        /\ \A s \in DOMAIN results : results[s] \in {"rows", "empty"}

\* C32: the downloads of a call are the consecutive chunks of at most
\* group_size symbols, in list order, one request each and ceil(n /
\* group_size) in all; with respect_server a request is at least the delay
\* after the one before it; every symbol of a chunk whose download raised has
\* an empty result, and the chunks after it are requested all the same.
OneRequestPerChunk ==
    LET all == Chunks(symbols, group_size)
    IN  batch_pc # "idle" =>
          /\ Len(issued) = Len(requests)
          /\ Len(issued) <= Len(all)
          /\ \A m \in DOMAIN issued :
                /\ issued[m] = all[m]
                /\ Len(issued[m]) \in 1..group_size
          /\ Len(answers) \in {Len(issued), Len(issued) - 1}
          /\ (Len(answers) = Len(issued) /\ batch_pc = "running") =>
                cpc[1] = "sleep"
          /\ respect_server =>
                /\ \A m \in DOMAIN requests :
                      requests[m][1] >= (IF m = 1 THEN 0 ELSE requests[m - 1][1]) + Delay
                /\ requests # <<>> => last_request_time = requests[Len(requests)][1]
          /\ \A m \in DOMAIN answers :
                answers[m] = "raise" =>
                    \A x \in DOMAIN all[m] :
                        /\ all[m][x] \in DOMAIN results
                        /\ results[all[m][x]] = "empty"
          /\ batch_pc = "returned" =>
                /\ Len(requests) = (Len(symbols) + group_size - 1) \div group_size
                /\ Len(answers) = Len(requests)
                /\ Flatten(issued) = symbols

\* C32 witness: three symbols in groups of two made two requests, the second
\* for the single symbol left over; the first download raised, both its
\* symbols have empty results, and the second group was still requested, a
\* delay after the first.
SecondChunkAfterRaise ==
    /\ batch_pc = "returned"
    /\ respect_server
    /\ Len(symbols) = 3 /\ group_size = 2
    /\ issued = <<<<1, 2>>, <<3>>>>
    /\ answers = <<"raise", "keyed">>
    /\ Len(requests) = 2
    /\ requests[2][1] >= requests[1][1] + Delay
    /\ results[1] = "empty" /\ results[2] = "empty" /\ results[3] = "rows"

\* C39: a symbol containing ".NSE" and neither ".BO" nor "-USD" is returned
\* with ".NSE" replaced by ".NS"; a symbol ending in ".BSE" is returned ending
\* in ".BO"; a symbol ending in ".US" is returned without that suffix.
SuffixesConverted ==
    converted # <<>> =>
        /\ (/\ Contains(symbol, DOT_NSE)
            /\ ~Contains(symbol, DOT_BO)
            /\ ~Contains(symbol, DASH_USD)) =>
                converted[1] = Replace(symbol, DOT_NSE, DOT_NS)
        /\ (EndsWith(symbol, DOT_BSE) /\ asset_type # "crypto") =>
                EndsWith(converted[1], DOT_BO)
        /\ (EndsWith(symbol, DOT_US) /\ asset_type # "crypto") =>
                converted[1] = SubSeq(symbol, 1, Len(symbol) - Len(DOT_US))

====
